---- MODULE Spec2Model ----
(***************************************************************************)
(* The empathetic-response engine of Diario-Emocional                      *)
(* (src/app/empathy.py, class EmpatheticResponseGenerator) as a state      *)
(* machine.  Python strings are TLA+ strings; every string operation the   *)
(* engine uses (lower, split, strip, in, replace, re.sub with \b, format)  *)
(* is an operator that computes it character by character.                 *)
(*                                                                         *)
(* The tables __init__ builds are definitions.  follow_up_phrases, the one *)
(* table a method of the class writes to (list.extend on the list stored   *)
(* in the dict), is a variable.                                            *)
(***************************************************************************)
EXTENDS Integers, Sequences, FiniteSets, TLC

VARIABLES
    follow_up_phrases,  \* self.follow_up_phrases: level -> list of phrases
    hash_seed,          \* the process's string-hash seed: fixes set iteration order
    call,               \* the engine call in progress or last returned
    workers,            \* threads inside generate_empathetic_response on the shared engine
    response,           \* web_app: the request last served and its response
    recorder,           \* AudioRecorder: its flag, its queue and its capture threads
    gui,                \* EmotionalDiaryGUI: its flag, its message queue and its threads
    simple              \* SimpleEmotionalDiaryGUI: its button, its message queue and its threads

\* The programs around the engine.
hosts == <<response, recorder, gui, simple>>

vars == <<follow_up_phrases, hash_seed, call, workers, response, recorder, gui, simple>>

\* ------------------------------------------------------------------------
\* Bounds of the model
\* ------------------------------------------------------------------------

\* Calls served by one engine in a behaviour.
MaxCalls == 2

\* Hash seeds a process may start with.
MaxSeed == 1

\* ------------------------------------------------------------------------
\* Python string operations
\* ------------------------------------------------------------------------

\* Python's None (returned for an absent sub_context).
None == "None"

Char(s, i) == SubSeq(s, i, i)

UpperLetters == "ABCDEFGHIJKLMNOPQRSTUVWXYZ"

LowerLetters == "abcdefghijklmnopqrstuvwxyz"

DigitChars == "0123456789"

CharsOf(s) == {Char(s, i) : i \in 1..Len(s)}

UpperSet == CharsOf(UpperLetters)

LowerSet == CharsOf(LowerLetters)

WordCharSet == UpperSet \cup LowerSet \cup CharsOf(DigitChars) \cup {"_"}

\* \w of the re module.
IsWordChar(c) == c \in WordCharSet

\* str.isspace for one character (what split(), strip() and \s look at).
IsSpace(c) == c \in {" ", "\t", "\n", "\r", "\f"}

LowerChar(c) ==
    IF c \in UpperSet
    THEN Char(LowerLetters, CHOOSE i \in 1..Len(UpperLetters) : Char(UpperLetters, i) = c)
    ELSE c

UpperChar(c) ==
    IF c \in LowerSet
    THEN Char(UpperLetters, CHOOSE i \in 1..Len(LowerLetters) : Char(LowerLetters, i) = c)
    ELSE c

\* str.lower(): each character lower-cased (halving keeps the recursion shallow).
RECURSIVE str_lower(_)
str_lower(s) ==
    IF Len(s) = 0 THEN ""
    ELSE IF Len(s) = 1 THEN LowerChar(s)
    ELSE str_lower(SubSeq(s, 1, Len(s) \div 2)) \o str_lower(SubSeq(s, Len(s) \div 2 + 1, Len(s)))

\* The least element of a non-empty set of integers.
Min(S) == CHOOSE x \in S : \A y \in S : x <= y

\* The elements of a finite set of integers, ascending.
SortedSeq(S) ==
    [k \in 1..Cardinality(S) |-> CHOOSE x \in S : Cardinality({y \in S : y < x}) = k - 1]

\* needle in haystack
Contains(h, n) ==
    \E i \in 1..(Len(h) - Len(n) + 1) : SubSeq(h, i, i + Len(n) - 1) = n

\* str.startswith
StartsWith(s, p) == Len(p) <= Len(s) /\ SubSeq(s, 1, Len(p)) = p

\* str.find, 1-based; 0 when absent.
Find(h, n) ==
    LET hits == {i \in 1..(Len(h) - Len(n) + 1) : SubSeq(h, i, i + Len(n) - 1) = n}
    IN  IF hits = {} THEN 0 ELSE Min(hits)

\* str.replace(old, new): every non-overlapping occurrence, left to right.
RECURSIVE str_replace(_, _, _)
str_replace(s, old, new) ==
    LET i == Find(s, old)
    IN  IF i = 0 \/ old = "" THEN s
        ELSE SubSeq(s, 1, i - 1) \o new
                \o str_replace(SubSeq(s, i + Len(old), Len(s)), old, new)

\* str.strip(): from the first to the last character that is not white space.
str_strip(s) ==
    LET solid == {i \in 1..Len(s) : ~IsSpace(Char(s, i))}
    IN  IF solid = {} THEN ""
        ELSE SubSeq(s, Min(solid), CHOOSE x \in solid : \A y \in solid : y <= x)

\* str.split(): the maximal runs of non-space characters, in order.
str_split(s) ==
    LET solid == {i \in 1..Len(s) : ~IsSpace(Char(s, i))}
        starts == SortedSeq({i \in solid : i - 1 \notin solid})
        ends == SortedSeq({i \in solid : i + 1 \notin solid})
    IN  [k \in 1..Len(starts) |-> SubSeq(s, starts[k], ends[k])]

\* str.count(c) for a single character c.
str_count(s, c) == Cardinality({i \in 1..Len(s) : Char(s, i) = c})

\* str.isupper(): at least one cased character and no lower-case one.
str_isupper(s) ==
    /\ \E i \in 1..Len(s) : Char(s, i) \in UpperSet
    /\ \A i \in 1..Len(s) : Char(s, i) \notin LowerSet

\* " and ".join(list) and friends.
RECURSIVE str_join(_, _)
str_join(sep, list) ==
    IF list = <<>> THEN ""
    ELSE IF Len(list) = 1 THEN list[1]
    ELSE list[1] \o sep \o str_join(sep, Tail(list))

\* re.sub(r'\bPAT\b', repl, s, flags=re.IGNORECASE) for a literal PAT that
\* starts and ends with a word character: sl is s lower-cased, pl is PAT
\* lower-cased, i the scan position.
word_match_at(pl, s, sl, i) ==
    /\ i + Len(pl) - 1 <= Len(s)
    /\ SubSeq(sl, i, i + Len(pl) - 1) = pl
    /\ (i = 1 \/ ~IsWordChar(Char(s, i - 1)))
    /\ (i + Len(pl) > Len(s) \/ ~IsWordChar(Char(s, i + Len(pl))))

\* The scan from position i: the text up to the leftmost match at or after i
\* is copied, the match replaced, and the scan goes on behind the match.
RECURSIVE re_sub_from(_, _, _, _, _)
re_sub_from(pl, repl, s, sl, i) ==
    LET hits == {m \in i..Len(s) : word_match_at(pl, s, sl, m)}
    IN  IF hits = {} THEN SubSeq(s, i, Len(s))
        ELSE SubSeq(s, i, Min(hits) - 1) \o repl
                \o re_sub_from(pl, repl, s, sl, Min(hits) + Len(pl))

re_sub_word(pat, repl, s) == re_sub_from(str_lower(pat), repl, s, str_lower(s), 1)

\* re.split(r'[.!?]\s+', s): cut at each '.', '!' or '?' that is followed by
\* white space, dropping the mark and all the white space after it.
\* The first position at or after i that holds no white space (Len(s) + 1 if none).
skip_spaces(s, i) == Min({j \in i..(Len(s) + 1) : j > Len(s) \/ ~IsSpace(Char(s, j))})

RECURSIVE re_split_from(_, _)
re_split_from(s, i) ==
    LET cuts == {m \in i..(Len(s) - 1) :
                    Char(s, m) \in {".", "!", "?"} /\ IsSpace(Char(s, m + 1))}
    IN  IF cuts = {} THEN <<SubSeq(s, i, Len(s))>>
        ELSE <<SubSeq(s, i, Min(cuts) - 1)>> \o re_split_from(s, skip_spaces(s, Min(cuts) + 1))

re_split_sentences(s) == re_split_from(s, 1)

\* len(re.findall(r'(.)\1{2,}', s)): the runs of three or more equal
\* characters ('.' does not match a newline), each counted once.
\* The last position of the run of equal characters that starts at i.
run_end(s, i) == Min({j \in i..Len(s) : j = Len(s) \/ Char(s, j + 1) # Char(s, i)})

RECURSIVE count_runs_from(_, _)
count_runs_from(s, i) ==
    LET hits == {m \in i..(Len(s) - 2) : Char(s, m) # "\n" /\ run_end(s, m) >= m + 2}
    IN  IF hits = {} THEN 0
        ELSE 1 + count_runs_from(s, run_end(s, Min(hits)) + 1)

count_repeated_runs(s) == count_runs_from(s, 1)

\* template.format(context=value): every {context} field of the template is
\* replaced by value; the value itself is not scanned again.
str_format(template, value) == str_replace(template, "{context}", value)

\* Sequence helpers.
SeqToSet(q) == {q[i] : i \in 1..Len(q)}

\* [x for x in q if P(x)], for the set keep of indexes where P holds.
FilterIdx(q, keep) ==
    LET idx == SortedSeq(keep \cap (1..Len(q)))
    IN  [k \in 1..Len(idx) |-> q[idx[k]]]

\* dict[key] for a dict kept as a sequence of <<key, value>> in insertion order.
HasKey(d, k) == \E i \in 1..Len(d) : d[i][1] = k

Lookup(d, k) == d[CHOOSE i \in 1..Len(d) : d[i][1] = k][2]

\* dict.get(key, default)
DictGet(d, k, default) == IF HasKey(d, k) THEN Lookup(d, k) ELSE default

\* d[key] = value: in place for a present key, at the end for a new one.
DictSet(d, k, v) ==
    IF HasKey(d, k)
    THEN [i \in 1..Len(d) |-> IF d[i][1] = k THEN <<k, v>> ELSE d[i]]
    ELSE Append(d, <<k, v>>)

\* self.intensity_words: (tier, words) in definition order
intensity_words ==
  <<
   <<"high", <<
      "extremely", "absolutely", "completely", "totally", "really", "very", "so", "incredibly",
      "devastated", "furious", "ecstatic", "terrified", "overwhelmed"
   >> >>,
   <<"medium", <<
      "quite", "rather", "pretty", "fairly", "somewhat", "moderately"
   >> >>,
   <<"low", <<
      "a bit", "slightly", "kind of", "sort of", "a little"
   >> >>
  >>

\* self.emotion_mapping: (label, category) in definition order
emotion_mapping ==
  <<
   <<"admiration", "positive">>, <<"amusement", "positive">>, <<"approval", "positive">>,
   <<"caring", "positive">>, <<"curiosity", "positive">>, <<"desire", "positive">>,
   <<"excitement", "positive">>, <<"gratitude", "positive">>, <<"joy", "positive">>,
   <<"love", "positive">>, <<"optimism", "positive">>, <<"pride", "positive">>,
   <<"realization", "positive">>, <<"relief", "positive">>, <<"anger", "negative">>,
   <<"annoyance", "negative">>, <<"disappointment", "negative">>, <<"disapproval", "negative">>,
   <<"disgust", "negative">>, <<"embarrassment", "negative">>, <<"fear", "negative">>,
   <<"grief", "negative">>, <<"nervousness", "negative">>, <<"remorse", "negative">>,
   <<"sadness", "negative">>, <<"confusion", "neutral">>, <<"surprise", "neutral">>,
   <<"neutral", "neutral">>
  >>

\* self.empathetic_patterns: (emotion tag, templates) in definition order
empathetic_patterns ==
  <<
   <<"anger", <<
      "I can really sense the frustration in your words about {context}. That level of anger is completely understandable given what you're dealing with.",
      "Your anger comes through clearly when you talk about {context}. It's natural to feel this heated when facing such challenges.",
      "I hear how infuriated you are by {context}. That sounds like an incredibly maddening situation to be in.",
      "The frustration you're feeling about {context} is so valid. Anyone would be upset dealing with something like that.",
      "I can feel how much {context} has gotten under your skin. That kind of anger shows how much this matters to you.",
      "It's clear that {context} has really pushed you to your limit. Your anger is a completely normal response to such treatment."
   >> >>,
   <<"sadness", <<
      "I can feel the deep sadness in your words about {context}. That kind of pain must be so heavy to carry.",
      "The grief you're experiencing with {context} comes through so clearly. I'm sorry you're going through something this difficult.",
      "Your sadness about {context} is palpable. It takes real strength to share something this painful.",
      "I hear the heartbreak in what you're saying about {context}. That level of sorrow would be overwhelming for anyone.",
      "The pain you're feeling from {context} is so evident. You're dealing with something truly heart-wrenching.",
      "I can sense how much {context} is weighing on your heart. That depth of sadness shows how deeply you care."
   >> >>,
   <<"fear", <<
      "I can hear the real fear in your voice about {context}. Those concerns feel very legitimate and understandable.",
      "The anxiety you're experiencing around {context} makes complete sense. That uncertainty would be frightening for anyone.",
      "Your worry about {context} comes through so clearly. It's natural to feel scared when facing something unknown like this.",
      "I can feel how much {context} is causing you to worry. That kind of fear shows you're really thinking about what matters.",
      "The apprehension you have about {context} is completely valid. Anyone would feel nervous in your situation.",
      "I understand why {context} feels so threatening. Your fear is a normal response to such uncertainty."
   >> >>,
   <<"joy", <<
      "The happiness radiating from your words about {context} is absolutely infectious! I can feel your joy through every sentence.",
      "Your excitement about {context} is so wonderful to hear. It's beautiful when life brings us these bright moments.",
      "I love the enthusiasm in your voice when you talk about {context}. That kind of joy is truly special.",
      "The delight you're feeling about {context} really shines through. It's amazing how happiness can transform everything.",
      "Your pure joy regarding {context} is so heartwarming. These are the moments that make everything worthwhile.",
      "I can practically feel you glowing when you describe {context}. That level of happiness is absolutely magical."
   >> >>,
   <<"surprise", <<
      "What a shocking turn of events with {context}! I can only imagine how that must have caught you completely off guard.",
      "The surprise you experienced with {context} really comes through. That must have been such an unexpected moment.",
      "I can hear how absolutely stunned you were by {context}. Life certainly has a way of throwing us curveballs.",
      "That revelation about {context} sounds like it completely changed your perspective. What an unexpected development!",
      "The astonishment in your words about {context} is so clear. Sometimes life surprises us in the most unexpected ways.",
      "I can feel how bewildered you must be by {context}. That kind of surprise can really shake up everything we thought we knew."
   >> >>,
   <<"disgust", <<
      "I can understand why {context} would be so off-putting to you. That kind of revulsion is a completely natural response.",
      "Your strong reaction to {context} makes perfect sense. Some things are just genuinely disturbing and wrong.",
      "The repulsion you feel toward {context} is completely justified. That sounds truly unpleasant to deal with.",
      "I hear how much {context} bothers you on a fundamental level. That kind of disgust shows your strong moral compass.",
      "Your aversion to {context} is completely understandable. Some situations are just inherently repulsive.",
      "I can feel how much {context} goes against your core values. That level of disgust shows you know what's right."
   >> >>,
   <<"disappointment", <<
      "The disappointment in your words about {context} is so palpable. That kind of letdown cuts really deep.",
      "I can hear how much {context} fell short of your hopes. That disappointment must sting so much.",
      "Your sense of being let down by {context} comes through clearly. Unmet expectations can be so crushing.",
      "The disillusionment you're feeling about {context} is completely understandable. That's such a hard pill to swallow.",
      "I can feel how deflated you are by {context}. When our hopes are dashed, it leaves such an empty feeling.",
      "Your disappointment about {context} is so valid. It hurts when reality doesn't match what we were hoping for."
   >> >>,
   <<"embarrassment", <<
      "I can sense how mortified you feel about {context}. That kind of embarrassment is so uncomfortable and overwhelming.",
      "The self-consciousness you're experiencing from {context} is completely understandable. We've all been in those cringe-worthy moments.",
      "Your embarrassment about {context} comes through so clearly. Those moments when we feel exposed are truly awful.",
      "I hear how much {context} made you want to disappear. That level of embarrassment is genuinely painful.",
      "The shame you're feeling about {context} is so relatable. Sometimes we just want the ground to swallow us up.",
      "I can feel how much {context} is making you second-guess yourself. Embarrassment has a way of making everything feel magnified."
   >> >>,
   <<"neutral", <<
      "Thank you for sharing your thoughts about {context}. I can hear that this is important to you, and I'm here to listen.",
      "I appreciate you opening up about {context}. Your perspective on this situation is really valuable.",
      "What you're sharing about {context} gives me insight into what you're experiencing. I'm glad you felt comfortable expressing this.",
      "I hear what you're saying about {context}. It's clear you've been thinking deeply about this situation.",
      "Your reflection on {context} shows a lot of thoughtfulness. I'm honored that you're sharing this with me.",
      "I can see that {context} has been on your mind. Thank you for trusting me with these thoughts."
   >> >>
  >>

\* self.follow_up_phrases as __init__ builds it: (intensity level, phrases)
InitFollowUpPhrases ==
  <<
   <<"high_intensity", <<
      "Would you like to talk more about this?",
      "How are you coping with everything right now?",
      "Is there anything specific that might help you feel better?",
      "Would it help to explore this situation further?",
      "What kind of support would be most helpful for you?",
      "Do you have people around you who understand what you're going through?",
      "How long have you been dealing with feelings this intense?",
      "What usually helps you when things feel this overwhelming?"
   >> >>,
   <<"medium_intensity", <<
      "How are you feeling about everything overall?",
      "Would you like to share more about your experience?",
      "What's been on your mind lately about this?",
      "How can I best support you through this situation?",
      "What would help you feel better about this?",
      "Have you been able to process these feelings with anyone?",
      "What aspects of this situation feel most challenging?",
      "How has this been affecting your daily life?"
   >> >>,
   <<"low_intensity", <<
      "Thanks for sharing this with me.", "I'm here if you need to talk more about it.",
      "How has your day been overall?", "What else has been on your mind?",
      "How are you doing with everything else in your life?",
      "Is there anything else you'd like to explore?",
      "What other thoughts or feelings have come up for you?",
      "How do you usually handle situations like this?"
   >> >>
  >>

\* self.context_keywords: (topic, keywords) in definition order
context_keywords ==
  <<
   <<"work", <<
      "job", "work", "boss", "colleague", "office", "meeting", "project", "deadline", "career",
      "workplace", "coworker", "manager", "employee", "salary", "promotion", "interview",
      "resignation", "fired", "hired", "overtime", "corporate", "company", "supervisor",
      "team", "performance", "evaluation", "professional", "business"
   >> >>,
   <<"relationship", <<
      "partner", "friend", "family", "relationship", "love", "breakup", "dating", "boyfriend",
      "girlfriend", "husband", "wife", "marriage", "divorce", "mother", "father", "sister",
      "brother", "parents", "children", "kids", "ex", "crush", "romantic", "social",
      "friendship", "argue", "fight"
   >> >>,
   <<"health", <<
      "sick", "doctor", "hospital", "pain", "health", "medicine", "treatment", "illness",
      "medical", "diagnosis", "surgery", "therapy", "symptoms", "tired", "exhausted",
      "headache", "fever", "appointment", "prescription"
   >> >>,
   <<"school", <<
      "school", "teacher", "student", "exam", "grade", "homework", "class", "university",
      "college", "study", "education", "degree", "semester", "course", "professor",
      "assignment", "thesis", "graduation", "academic"
   >> >>,
   <<"financial", <<
      "money", "financial", "budget", "debt", "bills", "expense", "income", "savings", "loan",
      "credit", "payment", "broke", "expensive", "cheap", "afford", "purchase", "investment",
      "mortgage", "rent", "tax"
   >> >>,
   <<"personal", <<
      "myself", "personal", "identity", "self", "confidence", "growth", "anxiety",
      "depression", "stress", "mental", "therapy", "counseling", "lonely", "overwhelmed",
      "tired", "emotional", "feelings", "thoughts"
   >> >>,
   <<"life_events", <<
      "birthday", "wedding", "funeral", "graduation", "moving", "travel", "vacation",
      "holiday", "celebration", "anniversary", "milestone"
   >> >>,
   <<"loss_grief", <<
      "death", "died", "funeral", "grief", "loss", "goodbye", "memorial", "miss", "gone",
      "passed away", "mourning", "grieving"
   >> >>
  >>

\* self.context_patterns: (sub-topic, phrases) in definition order
context_patterns ==
  <<
   <<"work_stress", <<
      "deadline", "pressure", "overtime", "workload", "demanding"
   >> >>,
   <<"work_conflict", <<
      "boss", "manager", "colleague", "workplace drama", "unfair"
   >> >>,
   <<"relationship_conflict", <<
      "argue", "fight", "disagree", "tension", "misunderstanding"
   >> >>,
   <<"relationship_loss", <<
      "breakup", "divorce", "separation", "ended", "over"
   >> >>,
   <<"health_concern", <<
      "worried about", "symptoms", "pain", "sick", "medical"
   >> >>,
   <<"academic_pressure", <<
      "exam", "test", "grade", "failing", "stressed about school"
   >> >>,
   <<"financial_stress", <<
      "can't afford", "broke", "bills", "debt", "money problems"
   >> >>,
   <<"personal_growth", <<
      "learning", "improving", "changing", "developing", "working on myself"
   >> >>,
   <<"life_transition", <<
      "moving", "new job", "starting", "ending", "change"
   >> >>
  >>

\* ------------------------------------------------------------------------
\* identify_context
\* ------------------------------------------------------------------------

\* f' {keyword} ' in f' {text_lower} ' scores 3, keyword in text_lower scores 1.
KeywordPoints(keyword, text_lower) ==
    IF Contains(" " \o text_lower \o " ", " " \o keyword \o " ") THEN 3
    ELSE IF Contains(text_lower, keyword) THEN 1
    ELSE 0

\* The score of one topic: the points of its keywords added up.
SumPoints(keywords, text_lower) ==
    3 * Cardinality({k \in 1..Len(keywords) : KeywordPoints(keywords[k], text_lower) = 3})
        + Cardinality({k \in 1..Len(keywords) : KeywordPoints(keywords[k], text_lower) = 1})

\* The keyword loop: one pass over self.context_keywords.items(), from topic
\* number i on; acc holds context_scores and key_elements so far.
RECURSIVE keyword_scan(_, _, _)
keyword_scan(text_lower, i, acc) ==
    IF i > Len(context_keywords) THEN acc
    ELSE LET context == context_keywords[i][1]
             keywords == context_keywords[i][2]
             score == SumPoints(keywords, text_lower)
             found_keywords ==
                 FilterIdx(keywords,
                     {k \in 1..Len(keywords) : KeywordPoints(keywords[k], text_lower) > 0})
         IN  keyword_scan(text_lower, i + 1,
                 IF score > 0
                 THEN [context_scores |-> Append(acc.context_scores, <<context, score>>),
                       key_elements |-> acc.key_elements \o found_keywords]
                 ELSE acc)

\* pattern_name.split('_')[0]
pattern_parent(pattern_name) ==
    IF Contains(pattern_name, "_")
    THEN SubSeq(pattern_name, 1, Find(pattern_name, "_") - 1)
    ELSE pattern_name

\* The (pattern_name, pattern) pairs the two nested pattern loops visit, in order.
RECURSIVE FlattenPatterns(_)
FlattenPatterns(i) ==
    IF i > Len(context_patterns) THEN <<>>
    ELSE [j \in 1..Len(context_patterns[i][2]) |->
              <<context_patterns[i][1], context_patterns[i][2][j]>>]
            \o FlattenPatterns(i + 1)

pattern_pairs == FlattenPatterns(1)

\* detected_patterns: the pattern_name of every pair whose phrase is in the
\* text, one entry per phrase, in loop order.
detect_patterns(text_lower) ==
    LET hits == FilterIdx(pattern_pairs,
                    {k \in 1..Len(pattern_pairs) : Contains(text_lower, pattern_pairs[k][2])})
    IN  [k \in 1..Len(hits) |-> hits[k][1]]

\* context_scores[parent] = context_scores.get(parent, 0) + 5, once for each
\* entry of detected_patterns from number i on.
RECURSIVE add_pattern_points(_, _, _)
add_pattern_points(context_scores, detected_patterns, i) ==
    IF i > Len(detected_patterns) THEN context_scores
    ELSE LET parent == pattern_parent(detected_patterns[i])
         IN  add_pattern_points(
                 DictSet(context_scores, parent, DictGet(context_scores, parent, 0) + 5),
                 detected_patterns, i + 1)

past_indicators == <<"was", "were", "had", "did", "yesterday", "last", "ago", "before", "used to">>

present_indicators == <<"am", "is", "are", "now", "today", "currently", "right now">>

future_indicators == <<"will", "going to", "tomorrow", "next", "soon", "planning", "hope">>

emotion_triggers ==
    <<"frustrated", "angry", "upset", "sad", "happy", "excited", "worried",
      "anxious", "scared", "disappointed", "overwhelmed", "stressed", "confused">>

\* any(w in text for w in words)
AnyIn(words, text) == \E i \in 1..Len(words) : Contains(text, words[i])

\* [w for w in words if w in text]
AllIn(words, text) == FilterIdx(words, {i \in 1..Len(words) : Contains(text, words[i])})

\* max(...) keeping the last key of the highest score instead of the first.
main_context_of_last_highest(context_scores) ==
    IF context_scores = <<>> THEN "general"
    ELSE context_scores[CHOOSE i \in 1..Len(context_scores) :
            /\ \A j \in 1..Len(context_scores) : context_scores[j][2] <= context_scores[i][2]
            /\ \A j \in (i + 1)..Len(context_scores) :
                   context_scores[j][2] < context_scores[i][2]][1]

\* max(context_scores, key=context_scores.get) if context_scores else 'general':
\* the first key, in insertion order, that holds the highest score.
main_context_of(context_scores) ==
    IF context_scores = <<>> THEN "general"
    ELSE context_scores[CHOOSE i \in 1..Len(context_scores) :
            /\ \A j \in 1..Len(context_scores) : context_scores[j][2] <= context_scores[i][2]
            /\ \A j \in 1..(i - 1) : context_scores[j][2] < context_scores[i][2]][1]

\* relevant_patterns[0] if any detected pattern starts with main_context, else None.
sub_context_of(detected_patterns, main_context) ==
    LET relevant_patterns ==
            FilterIdx(detected_patterns,
                {i \in 1..Len(detected_patterns) : StartsWith(detected_patterns[i], main_context)})
    IN  IF relevant_patterns # <<>> THEN relevant_patterns[1] ELSE None

\* Every keyword of every topic, in definition order.
RECURSIVE FlattenKeywords(_)
FlattenKeywords(i) ==
    IF i > Len(context_keywords) THEN <<>>
    ELSE context_keywords[i][2] \o FlattenKeywords(i + 1)

AllKeywords == FlattenKeywords(1)

\* hash(str) under the process's seed.  CPython draws the seed at start-up,
\* so the iteration order of a set of strings is fixed within a process and
\* differs between processes; here seed 0 gives the table order and every
\* other seed a different permutation of the keywords.
str_hash(s, seed) ==
    LET rank == CHOOSE i \in 1..Len(AllKeywords) :
                    AllKeywords[i] = s /\ \A j \in 1..(i - 1) : AllKeywords[j] # s
    IN  (rank * (1 + 104 * seed)) % 211

\* list(set(elements)): the distinct elements in hash order.
RECURSIVE set_to_list(_, _)
set_to_list(S, seed) ==
    IF S = {} THEN <<>>
    ELSE LET first == CHOOSE x \in S : \A y \in S : str_hash(x, seed) <= str_hash(y, seed)
         IN  <<first>> \o set_to_list(S \ {first}, seed)

\* The return statement of identify_context, before list(set(...)) orders
\* key_elements; context_scores is kept beside the returned fields.
context_result(text_lower, kw, detected_patterns, context_scores, main_context) ==
    [main_context |-> main_context,
     sub_context |-> sub_context_of(detected_patterns, main_context),
     key_elements |-> kw.key_elements,
     emotional_triggers |-> AllIn(emotion_triggers, text_lower),
     temporal_indicators |->
         [past |-> AnyIn(past_indicators, text_lower),
          present |-> AnyIn(present_indicators, text_lower),
          future |-> AnyIn(future_indicators, text_lower)],
     detected_patterns |-> detected_patterns,
     context_scores |-> context_scores,
     context_score |-> DictGet(context_scores, main_context, 0)]

\* main_context = max(context_scores, key=...) when any context scored.
score_context(text_lower, kw, detected_patterns, context_scores) ==
    context_result(text_lower, kw, detected_patterns, context_scores,
                   main_context_of(context_scores))

\* The pattern loop adds its points to the scores of the keyword loop.
scan_patterns(text_lower, kw, detected_patterns) ==
    score_context(text_lower, kw, detected_patterns,
                  add_pattern_points(kw.context_scores, detected_patterns, 1))

\* The keyword loop and the pattern detection over the lower-cased text.
scan_lower(text_lower) ==
    scan_patterns(text_lower,
                  keyword_scan(text_lower, 1, [context_scores |-> <<>>, key_elements |-> <<>>]),
                  detect_patterns(text_lower))

\* identify_context up to its return statement: everything but the order of
\* key_elements, which list(set(...)) fixes.
scan_context(text) == scan_lower(str_lower(text))

\* ------------------------------------------------------------------------
\* convert_to_second_person
\* ------------------------------------------------------------------------

\* The conversions dict, in definition order: each key is r'\b<phrase>\b'.
conversions ==
    <<<<"I am", "you are">>, <<"I'm", "you're">>, <<"I was", "you were">>,
      <<"I have", "you have">>, <<"I've", "you've">>, <<"I had", "you had">>,
      <<"I'd", "you'd">>, <<"I will", "you will">>, <<"I'll", "you'll">>,
      <<"I can", "you can">>, <<"I can't", "you can't">>, <<"I cannot", "you cannot">>,
      <<"I do", "you do">>, <<"I don't", "you don't">>, <<"I did", "you did">>,
      <<"I didn't", "you didn't">>, <<"I feel", "you feel">>, <<"I think", "you think">>,
      <<"I know", "you know">>, <<"I want", "you want">>, <<"I need", "you need">>,
      <<"I like", "you like">>, <<"I love", "you love">>, <<"I hate", "you hate">>,
      <<"I get", "you get">>, <<"I got", "you got">>, <<"I went", "you went">>,
      <<"I go", "you go">>, <<"I see", "you see">>, <<"I saw", "you saw">>,
      <<"I hear", "you hear">>, <<"I heard", "you heard">>, <<"I", "you">>,
      <<"me", "you">>, <<"my", "your">>, <<"mine", "yours">>, <<"myself", "yourself">>>>

\* for pattern, replacement in conversions.items(): result = re.sub(...),
\* from conversion number i on (no substitution changes an empty string).
RECURSIVE apply_conversions(_, _)
apply_conversions(result, i) ==
    IF result = "" \/ i > Len(conversions) THEN result
    ELSE apply_conversions(re_sub_word(conversions[i][1], conversions[i][2], result), i + 1)

\* convert_to_second_person trading the two persons for each other: "you"
\* becomes "I" while the first person becomes the second.
convert_swapping_persons(text) ==
    LET result == re_sub_word("QQQ", "I", apply_conversions(re_sub_word("you", "QQQ", text), 1))
    IN  IF /\ result # ""
           /\ Char(result, 1) \in LowerSet
           /\ Char(text, 1) \in UpperSet
        THEN UpperChar(Char(result, 1)) \o SubSeq(result, 2, Len(result))
        ELSE result

\* convert_to_second_person with patterns that lack the \b anchors.
convert_without_word_boundaries(text) ==
    LET result == str_replace(str_replace(str_replace(text, "my", "your"), "me", "you"),
                              "I", "you")
    IN  IF /\ result # ""
           /\ Char(result, 1) \in LowerSet
           /\ Char(text, 1) \in UpperSet
        THEN UpperChar(Char(result, 1)) \o SubSeq(result, 2, Len(result))
        ELSE result

convert_to_second_person(text) ==
    LET result == apply_conversions(text, 1)
    IN  IF result # "" /\ Char(result, 1) \in LowerSet /\ Char(text, 1) \in UpperSet
        THEN UpperChar(Char(result, 1)) \o SubSeq(result, 2, Len(result))
        ELSE result

\* ------------------------------------------------------------------------
\* extract_key_phrases and generate_context_summary
\* ------------------------------------------------------------------------

\* Every intensity word of every tier, in self.intensity_words.values() order.
all_intensity_words == intensity_words[1][2] \o intensity_words[2][2] \o intensity_words[3][2]

\* The number of entries of words found in sentence_lower.
CountIn(words, sentence_lower) ==
    Cardinality({i \in 1..Len(words) : Contains(sentence_lower, words[i])})

relevance_score(sentence, context_info) ==
    LET sentence_lower == str_lower(sentence)
    IN  2 * CountIn(context_info.key_elements, sentence_lower)
        + 3 * CountIn(context_info.emotional_triggers, sentence_lower)
        + CountIn(all_intensity_words, sentence_lower)

\* list.sort(key=score, reverse=True): stable, highest score first.
RECURSIVE sort_by_score(_)
sort_by_score(key_phrases) ==
    IF key_phrases = <<>> THEN <<>>
    ELSE LET best == CHOOSE i \in 1..Len(key_phrases) :
                        /\ \A j \in 1..Len(key_phrases) : key_phrases[j][2] <= key_phrases[i][2]
                        /\ \A j \in 1..(i - 1) : key_phrases[j][2] < key_phrases[i][2]
         IN  <<key_phrases[best]>>
                \o sort_by_score(FilterIdx(key_phrases, (1..Len(key_phrases)) \ {best}))

\* Sentences of more than three words, stripped.
meaningful_sentences(sentences) ==
    LET kept == FilterIdx(sentences, {k \in 1..Len(sentences) : Len(str_split(sentences[k])) > 3})
    IN  [i \in 1..Len(kept) |-> str_strip(kept[i])]

\* (sentence, relevance_score) for every meaningful sentence.
score_sentences(sentences, context_info) ==
    [i \in 1..Len(sentences) |-> <<sentences[i], relevance_score(sentences[i], context_info)>>]

\* key_phrases left in text order, without the sort.
rank_phrases_in_text_order(scored) ==
    FilterIdx(scored, {i \in 1..Len(scored) : scored[i][2] > 0})

\* key_phrases: the sentences of positive score, best first.
rank_phrases(scored) ==
    sort_by_score(FilterIdx(scored, {i \in 1..Len(scored) : scored[i][2] > 0}))

\* [phrase[0] for phrase in key_phrases[:3]]
top_phrases(key_phrases) ==
    [i \in 1..(IF Len(key_phrases) < 3 THEN Len(key_phrases) ELSE 3) |-> key_phrases[i][1]]

extract_key_phrases(text, context_info) ==
    top_phrases(rank_phrases(score_sentences(
        meaningful_sentences(re_split_sentences(str_strip(text))), context_info)))

specific_summaries ==
    <<<<"work_stress", "the intense pressure and demands you're facing at work">>,
      <<"work_conflict", "the difficult situation you're dealing with at your workplace">>,
      <<"relationship_conflict", "the tensions and disagreements in your relationship">>,
      <<"relationship_loss", "the painful end of your relationship">>,
      <<"health_concern", "the health issues you're worried about">>,
      <<"academic_pressure", "the academic stress and pressure you're under">>,
      <<"financial_stress", "the financial difficulties you're going through">>,
      <<"personal_growth", "the personal changes and growth you're experiencing">>,
      <<"life_transition", "the major life changes you're navigating">>>>

\* The temporal frames tried in the other order: future before past.
specific_summary_future_first(main_context, sub_context, emotional_triggers, temporal_indicators) ==
    LET base0 == IF HasKey(specific_summaries, sub_context)
                 THEN Lookup(specific_summaries, sub_context)
                 ELSE "what you're experiencing with " \o main_context
        base1 == IF temporal_indicators.future
                 THEN "what you're anticipating with " \o base0
                 ELSE IF temporal_indicators.past
                 THEN "what you went through with " \o str_replace(base0, "you're", "you were")
                 ELSE base0
    IN  IF emotional_triggers # <<>>
        THEN "how " \o emotional_triggers[1] \o " you're feeling about " \o base1
        ELSE base1

generate_specific_context_summary(main_context, sub_context, emotional_triggers, temporal_indicators) ==
    LET base0 == IF HasKey(specific_summaries, sub_context)
                 THEN Lookup(specific_summaries, sub_context)
                 ELSE "what you're experiencing with " \o main_context
        base1 == IF temporal_indicators.past
                 THEN "what you went through with " \o str_replace(base0, "you're", "you were")
                 ELSE IF temporal_indicators.future
                 THEN "what you're anticipating with " \o base0
                 ELSE base0
    IN  IF emotional_triggers # <<>>
        THEN "how " \o emotional_triggers[1] \o " you're feeling about " \o base1
        ELSE base1

context_descriptions ==
    <<<<"work", "your work situation">>,
      <<"relationship", "your relationship situation">>,
      <<"health", "your health concerns">>,
      <<"school", "your academic situation">>,
      <<"financial", "your financial concerns">>,
      <<"personal", "what you're going through personally">>,
      <<"life_events", "this important event in your life">>,
      <<"loss_grief", "the loss you're experiencing">>>>

\* re.sub(r'^(you\s+)', '', s, flags=re.IGNORECASE)
strip_leading_you(s) ==
    IF Len(s) >= 4 /\ str_lower(SubSeq(s, 1, 3)) = "you" /\ IsSpace(Char(s, 4))
    THEN SubSeq(s, skip_spaces(s, 4), Len(s))
    ELSE s

natural_starts == <<"the", "this", "what", "how", "that">>

\* The general summary with every key element taken as prominent.
general_summary_with_short_elements(main_context, key_phrases, key_elements) ==
    IF key_phrases # <<>>
    THEN LET converted_phrase ==
                 str_lower(str_strip(strip_leading_you(convert_to_second_person(key_phrases[1]))))
         IN  IF \E i \in 1..Len(natural_starts) : StartsWith(converted_phrase, natural_starts[i])
             THEN converted_phrase
             ELSE "what happened with " \o converted_phrase
    ELSE IF key_elements # <<>>
    THEN "the challenges with "
            \o str_join(" and ", SubSeq(key_elements, 1,
                                        IF Len(key_elements) < 2 THEN Len(key_elements) ELSE 2))
    ELSE DictGet(context_descriptions, main_context, "what you're going through")

generate_general_context_summary(main_context, key_phrases, key_elements) ==
    IF key_phrases # <<>>
    THEN LET converted_phrase ==
                 str_lower(str_strip(strip_leading_you(convert_to_second_person(key_phrases[1]))))
         IN  IF \E i \in 1..Len(natural_starts) : StartsWith(converted_phrase, natural_starts[i])
             THEN converted_phrase
             ELSE "what happened with " \o converted_phrase
    ELSE LET base_description == DictGet(context_descriptions, main_context, "what you're going through")
             long_elements == FilterIdx(key_elements, {i \in 1..Len(key_elements) : Len(key_elements[i]) > 3})
             prominent_elements ==
                 SubSeq(long_elements, 1, IF Len(long_elements) < 2 THEN Len(long_elements) ELSE 2)
         IN  IF prominent_elements # <<>>
             THEN "the challenges with " \o str_join(" and ", prominent_elements)
             ELSE base_description

\* ------------------------------------------------------------------------
\* calculate_emotional_intensity
\* ------------------------------------------------------------------------

intensity_total(text) ==
    LET text_lower == str_lower(text)
        words == str_split(text)
        exclamation_count == str_count(text, "!")
        question_count == str_count(text, "?")
        caps_words == Cardinality({i \in 1..Len(words) : str_isupper(words[i]) /\ Len(words[i]) > 1})
        high_score == CountIn(Lookup(intensity_words, "high"), text_lower)
        medium_score == CountIn(Lookup(intensity_words, "medium"), text_lower)
        repeated_letters == count_repeated_runs(text_lower)
    IN  exclamation_count * 2 + question_count + caps_words + high_score * 3
            + medium_score + repeated_letters * 2

\* calculate_emotional_intensity with its thresholds taken inclusively.
intensity_with_inclusive_thresholds(text) ==
    LET total == intensity_total(text)
    IN  IF total >= 4 THEN "high_intensity"
        ELSE IF total >= 1 THEN "medium_intensity"
        ELSE "low_intensity"

\* calculate_emotional_intensity naming its levels without the suffix the
\* keys of follow_up_phrases carry.
intensity_without_suffix(text) ==
    LET total == intensity_total(text)
    IN  IF total > 4 THEN "high"
        ELSE IF total > 1 THEN "medium"
        ELSE "low"

calculate_emotional_intensity(text) ==
    LET total == intensity_total(text)
    IN  IF total > 4 THEN "high_intensity"
        ELSE IF total > 1 THEN "medium_intensity"
        ELSE "low_intensity"

\* ------------------------------------------------------------------------
\* identify_context and generate_context_summary, as the methods return them
\* ------------------------------------------------------------------------

\* The returned dict: key_elements in the order list(set(...)) gives them.
ordered_context(s, seed) ==
    [main_context |-> s.main_context,
     sub_context |-> s.sub_context,
     key_elements |-> set_to_list(SeqToSet(s.key_elements), seed),
     emotional_triggers |-> s.emotional_triggers,
     temporal_indicators |-> s.temporal_indicators,
     detected_patterns |-> s.detected_patterns,
     context_score |-> s.context_score]

identify_context(text, seed) == ordered_context(scan_context(text), seed)

\* generate_context_summary once identify_context has answered.
summarise_context(text, context_info) ==
    IF context_info.sub_context # None
    THEN generate_specific_context_summary(context_info.main_context,
             context_info.sub_context, context_info.emotional_triggers,
             context_info.temporal_indicators)
    ELSE generate_general_context_summary(context_info.main_context,
             extract_key_phrases(text, context_info), context_info.key_elements)

generate_context_summary(text, seed) ==
    summarise_context(text, identify_context(text, seed))

\* ------------------------------------------------------------------------
\* generate_empathetic_response, step by step
\* ------------------------------------------------------------------------

\* The keys of self.empathetic_patterns: the handled emotion tags.
HandledTags == {empathetic_patterns[i][1] : i \in 1..Len(empathetic_patterns)}

\* The negative branch deciding by the keyword groups alone, blind to sub_context.
resolve_negative_by_keywords(text_lower, context_info) ==
    IF AnyIn(<<"frustrated", "angry", "mad", "infuriated">>, text_lower) THEN "anger"
    ELSE IF AnyIn(<<"sad", "depressed", "heartbroken", "devastated">>, text_lower)
    THEN "sadness"
    ELSE IF AnyIn(<<"scared", "afraid", "worried", "anxious", "nervous">>, text_lower)
    THEN "fear"
    ELSE IF AnyIn(<<"disappointed", "let down", "expected", "hoped">>, text_lower)
    THEN "disappointment"
    ELSE IF AnyIn(<<"embarrassed", "ashamed", "humiliated", "mortified">>, text_lower)
    THEN "embarrassment"
    ELSE IF AnyIn(<<"disgusted", "repulsed", "sick", "revolting">>, text_lower)
    THEN "disgust"
    ELSE IF context_info.main_context \in {"work", "school"}
    THEN "anger"
    ELSE "sadness"

\* The branch of a negative-category label.
resolve_negative(text_lower, context_info) ==
    IF \/ context_info.sub_context = "work_stress"
       \/ AnyIn(<<"frustrated", "angry", "mad", "infuriated">>, text_lower)
    THEN "anger"
    ELSE IF \/ context_info.sub_context \in {"relationship_loss", "loss_grief"}
            \/ AnyIn(<<"sad", "depressed", "heartbroken", "devastated">>, text_lower)
    THEN "sadness"
    ELSE IF AnyIn(<<"scared", "afraid", "worried", "anxious", "nervous">>, text_lower)
    THEN "fear"
    ELSE IF AnyIn(<<"disappointed", "let down", "expected", "hoped">>, text_lower)
    THEN "disappointment"
    ELSE IF AnyIn(<<"embarrassed", "ashamed", "humiliated", "mortified">>, text_lower)
    THEN "embarrassment"
    ELSE IF AnyIn(<<"disgusted", "repulsed", "sick", "revolting">>, text_lower)
    THEN "disgust"
    ELSE IF context_info.main_context \in {"work", "school"}
    THEN "anger"
    ELSE "sadness"

\* The branch of a positive-category label: each of its three arms sets joy.
resolve_positive(text_lower, context_info) ==
    IF AnyIn(<<"excited", "thrilled", "amazing", "fantastic">>, text_lower) THEN "joy"
    ELSE IF /\ context_info.main_context = "work"
            /\ AnyIn(<<"promotion", "success", "achieved">>, text_lower)
    THEN "joy"
    ELSE "joy"

\* emotion_mapping.get(emotion, 'negative'): a label the map lacks sent down
\* the keyword path.
emotion_category_default_negative(emotion) == DictGet(emotion_mapping, emotion, "negative")

\* The category of a label that is no handled tag: emotion_mapping.get(emotion, 'neutral').
emotion_category_of(emotion) == DictGet(emotion_mapping, emotion, "neutral")

\* Step 2 without emotion.lower().
resolve_emotion_as_given(emotion, text, context_info) ==
    IF HasKey(empathetic_patterns, emotion) THEN emotion
    ELSE IF emotion_category_of(emotion) = "positive"
    THEN resolve_positive(str_lower(text), context_info)
    ELSE IF emotion_category_of(emotion) = "negative"
    THEN resolve_negative(str_lower(text), context_info)
    ELSE "neutral"

\* Step 2: the emotion tag the reply is written for.
resolve_emotion(emotion, text, context_info) ==
    LET lowered == str_lower(emotion)
    IN  IF HasKey(empathetic_patterns, lowered) THEN lowered
        ELSE IF emotion_category_of(lowered) = "positive"
        THEN resolve_positive(str_lower(text), context_info)
        ELSE IF emotion_category_of(lowered) = "negative"
        THEN resolve_negative(str_lower(text), context_info)
        ELSE "neutral"

strong_words == <<"really", "completely", "absolutely", "deeply", "truly", "so", "incredibly">>

\* Step 4 with the preference for strong templates applied at every intensity.
available_patterns_always_preferring(emotion_tag, intensity) ==
    LET pool == DictGet(empathetic_patterns, emotion_tag, Lookup(empathetic_patterns, "neutral"))
        preferred_patterns ==
            FilterIdx(pool, {i \in 1..Len(pool) : AnyIn(strong_words, str_lower(pool[i]))})
    IN  IF preferred_patterns # <<>> THEN preferred_patterns ELSE pool

\* Step 4: the templates random.choice draws from.
available_patterns(emotion_tag, intensity) ==
    LET pool == DictGet(empathetic_patterns, emotion_tag, Lookup(empathetic_patterns, "neutral"))
        preferred_patterns ==
            FilterIdx(pool, {i \in 1..Len(pool) : AnyIn(strong_words, str_lower(pool[i]))})
    IN  IF intensity = "high_intensity" /\ preferred_patterns # <<>>
        THEN preferred_patterns
        ELSE pool

work_specific_followups ==
    <<"How are you managing the stress at work?",
      "What support do you have in your workplace?",
      "Have you been able to talk to anyone about this situation?">>

relationship_followups ==
    <<"Do you have support from friends or family right now?",
      "How are you taking care of yourself through this?",
      "What has been helping you process these feelings?">>

\* Step 6 appending a closing remark, not a question, for work at high intensity.
followup_extension_with_remark(main_context, intensity, emotion_tag) ==
    IF main_context = "work" /\ intensity = "high_intensity"
    THEN <<"I'm here if you need to talk more about it.">>
    ELSE IF main_context = "relationship" /\ emotion_tag \in {"sadness", "anger"}
    THEN relationship_followups
    ELSE <<>>

\* Step 6: what follow_up_options.extend(...) appends to the list, if anything.
followup_extension(main_context, intensity, emotion_tag) ==
    IF main_context = "work" /\ intensity = "high_intensity" THEN work_specific_followups
    ELSE IF main_context = "relationship" /\ emotion_tag \in {"sadness", "anger"}
    THEN relationship_followups
    ELSE <<>>

transitions == <<"", "I'm curious, ", "I wonder, ", "If you don't mind me asking, ">>

\* The transitions random.choice can draw: none is drawn at high intensity.
transition_choices(intensity) ==
    IF intensity = "high_intensity" THEN {""} ELSE SeqToSet(transitions)

\* Step 7 with the follow-up question left out.
final_response_without_follow_up(main_response, follow_up, intensity, transition) ==
    main_response

\* Step 7 without follow_up.lower().
final_response_keeping_case(main_response, follow_up, intensity, transition) ==
    IF intensity = "high_intensity"
    THEN main_response \o " " \o follow_up
    ELSE main_response \o " " \o transition \o follow_up

\* Step 7: the reply.
final_response(main_response, follow_up, intensity, transition) ==
    IF intensity = "high_intensity"
    THEN main_response \o " " \o follow_up
    ELSE main_response \o " " \o transition \o str_lower(follow_up)

\* ------------------------------------------------------------------------
\* The programs around the engine, before they have done anything
\* ------------------------------------------------------------------------

\* web_app: no request served yet.  keys are the keys of the JSON payload,
\* error the exception that ended the request, engine_called whether
\* generate_empathetic_response was reached.
NoResponse ==
    [route |-> "", text |-> "", status |-> 0, keys |-> {}, error |-> "",
     engine_called |-> FALSE]

\* AudioRecorder.__init__: threads holds, for each capture thread started,
\* where it is in _record_audio; audio_queue the recordings put, each named
\* by the number of its thread.
NoRecorder == [is_recording |-> FALSE, audio_queue |-> <<>>, threads |-> <<>>]

\* EmotionalDiaryGUI.__init__: processors holds, for each process_audio
\* thread started, where it is; clicks counts the clicks on the record button
\* and last_click tells what the last one did.
NoGui ==
    [is_recording |-> FALSE, message_queue |-> <<>>, processors |-> <<>>, clicks |-> 0,
     last_click |-> ""]

\* SimpleEmotionalDiaryGUI.__init__: the Process button is enabled; threads
\* holds, for each process_text_thread started, where it is.
NoSimple == [button |-> "normal", message_queue |-> <<>>, threads |-> <<>>]

HostsIdle ==
    /\ response = NoResponse
    /\ recorder = NoRecorder
    /\ gui = NoGui
    /\ simple = NoSimple

\* ------------------------------------------------------------------------
\* Inputs
\* ------------------------------------------------------------------------

\* The texts the engine is called with: the empty text, the scenarios of the
\* specification, text without any keyword, Spanish text, text without a
\* sentence of more than three words, text that holds a placeholder.
Texts ==
    {"",
     "I am scared about my exam tomorrow",
     "My boss gave me an impossible deadline and I'm furious!",
     "I am so sad about {context} today",
     "sad about the deadline",
     "so very sad!",
     "My wife and I argue!!!",
     "worried about the divorce",
     "Estoy muy feliz porque me ascendieron en el trabajo",
     "friend family",
     "my friend is sick",
     "ashamed of my debt and bills",
     "I hoped for more. tired",
     "my job"}

\* The labels a classifier hands over: every label of emotion_mapping (the
\* handled tags among them), labels in other letter cases, labels it lacks.
Labels ==
    {emotion_mapping[i][1] : i \in 1..Len(emotion_mapping)}
        \cup {"Sadness", "ANGER", "Grief", "unknown_label", "anxiety", ""}

\* The (text, emotion) pairs of the calls a long-lived engine serves.
Inputs ==
    {<<"", "joy">>,
     <<"I am scared about my exam tomorrow", "unknown_label">>,
     <<"My boss gave me an impossible deadline and I'm furious!", "anger">>,
     <<"I am so sad about {context} today", "Sadness">>,
     <<"sad about the deadline", "grief">>,
     <<"so very sad!", "sadness">>,
     <<"My wife and I argue!!!", "anger">>,
     <<"Estoy muy feliz porque me ascendieron en el trabajo", "neutral">>,
     <<"friend family", "remorse">>}

Methods ==
    {"identify_context", "generate_context_summary", "calculate_emotional_intensity",
     "convert_to_second_person"}

\* ------------------------------------------------------------------------
\* The engine and its callers
\* ------------------------------------------------------------------------

NoContext ==
    [main_context |-> "", sub_context |-> None, key_elements |-> <<>>,
     emotional_triggers |-> <<>>,
     temporal_indicators |-> [past |-> FALSE, present |-> FALSE, future |-> FALSE],
     detected_patterns |-> <<>>, context_score |-> 0]

\* No call made yet: n counts the calls the engine has returned from,
\* context_scores is the local of that name when identify_context returns,
\* and seen is what a caller that compares results has seen returned so far.
NoCall ==
    [phase |-> "idle", op |-> "", text |-> "", emotion |-> "", n |-> 0, raised |-> "",
     value |-> "", context_info |-> NoContext, context_scores |-> <<>>, emotion_tag |-> "",
     context_summary |-> "", intensity |-> "", selected_pattern |-> "", follow_up |-> "",
     transition |-> "", seen |-> <<>>]

\* A thread that has not entered generate_empathetic_response yet.
NoWork ==
    [pc |-> "idle", text |-> "", emotion |-> "", raised |-> "", value |-> "",
     main_context |-> "", emotion_tag |-> "", context_summary |-> "", intensity |-> "",
     selected_pattern |-> "", follow_up |-> "", transition |-> ""]

Workers == {1, 2}

\* EmpatheticResponseGenerator(): the tables as __init__ builds them, in a
\* process with any hash seed.
Init ==
    /\ follow_up_phrases = InitFollowUpPhrases
    /\ hash_seed \in 0..MaxSeed
    /\ call = NoCall
    /\ workers = [w \in Workers |-> NoWork]
    /\ HostsIdle

\* A caller invokes a method of the engine with its arguments.
Invoke(op, text, emotion) ==
    /\ call.phase \in {"idle", "returned"}
    /\ call.n < MaxCalls
    /\ call' = [NoCall EXCEPT !.phase = "called", !.op = op, !.text = text,
                              !.emotion = emotion, !.n = call.n]
    /\ UNCHANGED <<follow_up_phrases, hash_seed, workers, hosts>>

CallMethod == \E op \in Methods : \E text \in Texts : Invoke(op, text, "")

CallGenerate == \E input \in Inputs : Invoke("generate_empathetic_response", input[1], input[2])

Returned(c) == [c EXCEPT !.phase = "returned", !.n = c.n + 1]

\* identify_context made to answer from the follow-up pool's state.
IdentifyContextReadingFollowUps ==
    /\ call.phase = "called" /\ call.op = "identify_context"
    /\ call' = [Returned(call) EXCEPT
                    !.context_info =
                        IF follow_up_phrases = InitFollowUpPhrases
                        THEN identify_context(call.text, hash_seed)
                        ELSE NoContext,
                    !.context_scores = scan_context(call.text).context_scores]
    /\ UNCHANGED <<follow_up_phrases, hash_seed, workers, hosts>>

IdentifyContext ==
    /\ call.phase = "called" /\ call.op = "identify_context"
    /\ call' = [Returned(call) EXCEPT
                    !.context_info = identify_context(call.text, hash_seed),
                    !.context_scores = scan_context(call.text).context_scores]
    /\ UNCHANGED <<follow_up_phrases, hash_seed, workers, hosts>>

GenerateContextSummary ==
    /\ call.phase = "called" /\ call.op = "generate_context_summary"
    /\ call' = [Returned(call) EXCEPT !.value = generate_context_summary(call.text, hash_seed)]
    /\ UNCHANGED <<follow_up_phrases, hash_seed, workers, hosts>>

CalculateEmotionalIntensity ==
    /\ call.phase = "called" /\ call.op = "calculate_emotional_intensity"
    /\ call' = [Returned(call) EXCEPT !.value = calculate_emotional_intensity(call.text)]
    /\ UNCHANGED <<follow_up_phrases, hash_seed, workers, hosts>>

ConvertToSecondPerson ==
    /\ call.phase = "called" /\ call.op = "convert_to_second_person"
    /\ call' = [Returned(call) EXCEPT !.value = convert_to_second_person(call.text)]
    /\ UNCHANGED <<follow_up_phrases, hash_seed, workers, hosts>>

\* generate_empathetic_response(text, emotion), the whole method, for the
\* call c: it leaves the returned call in call and the pool it wrote to.  An
\* exception leaves through raised: IndexError from random.choice on an empty
\* list, KeyError from self.follow_up_phrases[intensity].  (Each local is
\* bound once, as a member of a one-element set.)
Generate(c) ==
    /\ \E context_info \in {identify_context(c.text, hash_seed)} :
       \E emotion_tag \in {resolve_emotion(c.emotion, c.text, context_info)} :
       \E context_summary \in {generate_context_summary(c.text, hash_seed)} :
       \E intensity \in {calculate_emotional_intensity(c.text)} :
       \E patterns \in {available_patterns(emotion_tag, intensity)} :
       \E analysed \in {[Returned(c) EXCEPT !.context_info = context_info,
                             !.emotion_tag = emotion_tag,
                             !.context_summary = context_summary,
                             !.intensity = intensity]} :
          IF patterns = <<>>
          THEN /\ call' = [analysed EXCEPT !.raised = "IndexError"]
               /\ UNCHANGED follow_up_phrases
          ELSE IF ~HasKey(follow_up_phrases, intensity)
          THEN /\ \E p \in 1..Len(patterns) :
                    call' = [analysed EXCEPT !.selected_pattern = patterns[p],
                                             !.raised = "KeyError"]
               /\ UNCHANGED follow_up_phrases
          ELSE \E follow_up_options \in
                    {Lookup(follow_up_phrases, intensity)
                        \o followup_extension(context_info.main_context, intensity,
                                              emotion_tag)} :
               /\ follow_up_phrases' = DictSet(follow_up_phrases, intensity, follow_up_options)
               /\ \E p \in 1..Len(patterns) :
                  \E main_response \in {str_format(patterns[p], context_summary)} :
                     IF follow_up_options = <<>>
                     THEN call' = [analysed EXCEPT !.selected_pattern = patterns[p],
                                                   !.raised = "IndexError"]
                     ELSE \E f \in 1..Len(follow_up_options) :
                          \E transition \in transition_choices(intensity) :
                             call' = [analysed EXCEPT
                                 !.selected_pattern = patterns[p],
                                 !.follow_up = follow_up_options[f],
                                 !.transition = transition,
                                 !.value = final_response(main_response, follow_up_options[f],
                                                          intensity, transition)]

\* The engine serving a call made to it directly.
GenerateEmpatheticResponse ==
    /\ call.phase = "called" /\ call.op = "generate_empathetic_response"
    /\ Generate(call)
    /\ UNCHANGED <<hash_seed, workers, hosts>>

Next ==
    \/ CallMethod
    \/ CallGenerate
    \/ IdentifyContext
    \/ GenerateContextSummary
    \/ CalculateEmotionalIntensity
    \/ ConvertToSecondPerson
    \/ GenerateEmpatheticResponse

\* One engine serving one call after another.
Spec == Init /\ [][Next]_vars

\* ------------------------------------------------------------------------
\* Two threads inside generate_empathetic_response of one shared engine
\* ------------------------------------------------------------------------

\* The (text, emotion) pairs of the concurrent calls.
ThreadInputs ==
    {<<"My boss gave me an impossible deadline and I'm furious!", "anger">>,
     <<"so very sad!", "sadness">>}

\* Steps 1 to 5 and the first statement of step 6: all of it works on locals
\* but follow_up_options = self.follow_up_phrases[intensity], which makes the
\* local a second name of the shared list.
ThreadAnalyse(w) ==
    /\ workers[w].pc = "idle"
    /\ \E input \in ThreadInputs :
       \E context_info \in {identify_context(input[1], hash_seed)} :
       \E emotion_tag \in {resolve_emotion(input[2], input[1], context_info)} :
       \E context_summary \in {generate_context_summary(input[1], hash_seed)} :
       \E intensity \in {calculate_emotional_intensity(input[1])} :
       \E patterns \in {available_patterns(emotion_tag, intensity)} :
       \E analysed \in {[NoWork EXCEPT !.text = input[1], !.emotion = input[2],
                            !.main_context = context_info.main_context,
                            !.emotion_tag = emotion_tag,
                            !.context_summary = context_summary,
                            !.intensity = intensity]} :
          IF patterns = <<>>
          THEN workers' = [workers EXCEPT ![w] =
                              [analysed EXCEPT !.pc = "done", !.raised = "IndexError"]]
          ELSE \E p \in 1..Len(patterns) :
                  IF ~HasKey(follow_up_phrases, intensity)
                  THEN workers' = [workers EXCEPT ![w] =
                                      [analysed EXCEPT !.pc = "done",
                                                       !.selected_pattern = patterns[p],
                                                       !.raised = "KeyError"]]
                  ELSE workers' = [workers EXCEPT ![w] =
                                      [analysed EXCEPT !.pc = "extend",
                                                       !.selected_pattern = patterns[p]]]
    /\ UNCHANGED <<follow_up_phrases, hash_seed, call, hosts>>

\* The if/elif of step 6: follow_up_options.extend(...) on the shared list.
ThreadExtend(w) ==
    /\ workers[w].pc = "extend"
    /\ follow_up_phrases' =
           DictSet(follow_up_phrases, workers[w].intensity,
                   Lookup(follow_up_phrases, workers[w].intensity)
                       \o followup_extension(workers[w].main_context, workers[w].intensity,
                                             workers[w].emotion_tag))
    /\ workers' = [workers EXCEPT ![w].pc = "choose"]
    /\ UNCHANGED <<hash_seed, call, hosts>>

\* random.choice(follow_up_options) on the list as it is by now, and step 7.
ThreadChoose(w) ==
    /\ workers[w].pc = "choose"
    /\ \E follow_up_options \in {Lookup(follow_up_phrases, workers[w].intensity)} :
       \E main_response \in {str_format(workers[w].selected_pattern,
                                        workers[w].context_summary)} :
          IF follow_up_options = <<>>
          THEN workers' = [workers EXCEPT ![w].pc = "done", ![w].raised = "IndexError"]
          ELSE \E f \in 1..Len(follow_up_options) :
               \E transition \in transition_choices(workers[w].intensity) :
                  workers' = [workers EXCEPT
                      ![w].pc = "done",
                      ![w].follow_up = follow_up_options[f],
                      ![w].transition = transition,
                      ![w].value = final_response(main_response, follow_up_options[f],
                                                  workers[w].intensity, transition)]
    /\ UNCHANGED <<follow_up_phrases, hash_seed, call, hosts>>

NextThreads ==
    \E w \in Workers :
        \/ ThreadAnalyse(w)
        \/ ThreadExtend(w)
        \/ ThreadChoose(w)

\* One engine shared by two threads, each making one call.
SpecThreads == Init /\ [][NextThreads]_vars

\* ------------------------------------------------------------------------
\* A fresh engine answering one call, for every text and every label
\* ------------------------------------------------------------------------

InitLabels ==
    /\ follow_up_phrases = InitFollowUpPhrases
    /\ hash_seed \in 0..MaxSeed
    /\ \E text \in Texts : \E emotion \in Labels :
          call = [NoCall EXCEPT !.phase = "called", !.op = "generate_empathetic_response",
                                !.text = text, !.emotion = emotion]
    /\ workers = [w \in Workers |-> NoWork]
    /\ HostsIdle

NextLabels == GenerateEmpatheticResponse

SpecLabels == InitLabels /\ [][NextLabels]_vars

\* ------------------------------------------------------------------------
\* A fresh engine answering one call of an analysis method, for every text
\* ------------------------------------------------------------------------

\* Texts for the analysis methods: the empty text, the scenarios of the
\* specification, keywords next to punctuation, several phrases of one
\* sub-topic, topics of equal score, first-person markers inside other words,
\* text in second person, and scores on both sides of each intensity threshold.
MethodTexts ==
    {"",
     "My boss gave me an impossible deadline and I'm furious!",
     "I am scared about my exam tomorrow",
     "I love my job.",
     "worried about the deadline and the pressure",
     "my job and my friend",
     "my boss, my team",
     "moving to a new job",
     "funeral for my mother yesterday",
     "You gave them some time at home",
     "I see you. My dog is mine",
     "i'm here by myself",
     "SO tired!!!",
     "sooo sad",
     "I AM FINE",
     "sad?",
     "sad!",
     "really sad?",
     "very sad!",
     "quite ok!",
     "a bit sad",
     "the sky looks blue today", "ok\n\n\nok",
     "the deadline was hard",
     "sad about the divorce yesterday",
     "worried about the exam tomorrow, so sad",
     "the deadline was moved to tomorrow",
     "deadline",
     "My friend is so kind here. My family is so kind here",
     "My friend is kind here. My family is so very kind",
     "We walked in the park. My friend is so very kind",
     "friend family",
     "my job",
     "mother",
     "party"}

InitMethods ==
    /\ follow_up_phrases = InitFollowUpPhrases
    /\ hash_seed \in 0..MaxSeed
    /\ \E op \in Methods : \E text \in MethodTexts :
          call = [NoCall EXCEPT !.phase = "called", !.op = op, !.text = text]
    /\ workers = [w \in Workers |-> NoWork]
    /\ HostsIdle

NextMethods ==
    \/ IdentifyContext
    \/ GenerateContextSummary
    \/ CalculateEmotionalIntensity
    \/ ConvertToSecondPerson

SpecMethods == InitMethods /\ [][NextMethods]_vars


\* ------------------------------------------------------------------------
\* A caller that repeats the read-only methods between calls of
\* generate_empathetic_response and compares what they return
\* ------------------------------------------------------------------------

PureMethods == {"identify_context", "calculate_emotional_intensity"}

PureTexts ==
    {"I love my job.", "a bit sad"}

PureInputs ==
    {<<"My boss gave me an impossible deadline and I'm furious!", "anger">>,
     <<"so very sad!", "sadness">>}

MaxPureCalls == 3

\* What the caller keeps of a call that has returned.
Finished(c) ==
    [op |-> c.op, text |-> c.text,
     context_info |-> IF c.op = "identify_context" THEN c.context_info ELSE NoContext,
     value |-> IF c.op = "calculate_emotional_intensity" THEN c.value ELSE ""]

\* The caller notes what the last call returned and makes the next one.
InvokeNext(op, text, emotion) ==
    /\ call.phase \in {"idle", "returned"}
    /\ call.n < MaxPureCalls
    /\ call' = [NoCall EXCEPT !.phase = "called", !.op = op, !.text = text,
                              !.emotion = emotion, !.n = call.n,
                              !.seen = IF call.phase = "returned"
                                       THEN Append(call.seen, Finished(call))
                                       ELSE call.seen]
    /\ UNCHANGED <<follow_up_phrases, hash_seed, workers, hosts>>

CallPureMethod == \E op \in PureMethods : \E text \in PureTexts : InvokeNext(op, text, "")

CallGenerateBetween ==
    \E input \in PureInputs : InvokeNext("generate_empathetic_response", input[1], input[2])

NextPure ==
    \/ CallPureMethod
    \/ CallGenerateBetween
    \/ IdentifyContext
    \/ CalculateEmotionalIntensity
    \/ GenerateEmpatheticResponse

SpecPure == Init /\ [][NextPure]_vars

\* ------------------------------------------------------------------------
\* convert_to_second_person on each contraction and verb phrase of its table
\* ------------------------------------------------------------------------

\* The entries of conversions that start with I and go on: the contractions
\* and the verb phrases, all listed before the bare I.
NumPhrases == 32

\* str.upper()
RECURSIVE str_upper(_)
str_upper(s) ==
    IF Len(s) = 0 THEN ""
    ELSE IF Len(s) = 1 THEN UpperChar(s)
    ELSE str_upper(SubSeq(s, 1, Len(s) \div 2)) \o str_upper(SubSeq(s, Len(s) \div 2 + 1, Len(s)))

\* A phrase as listed, in capitals and in small letters.
PhraseForms(phrase) == {phrase, str_upper(phrase), str_lower(phrase)}

\* What stands before and after the phrase in a text.
PhraseLeads == {"", "and then "}

PhraseTails == {"", " again"}

PhraseTexts ==
    {lead \o form \o tail :
        lead \in PhraseLeads, tail \in PhraseTails,
        form \in UNION {PhraseForms(conversions[i][1]) : i \in 1..NumPhrases}}

InitPhrases ==
    /\ follow_up_phrases = InitFollowUpPhrases
    /\ hash_seed \in 0..MaxSeed
    /\ \E text \in PhraseTexts :
          call = [NoCall EXCEPT !.phase = "called", !.op = "convert_to_second_person",
                                !.text = text]
    /\ workers = [w \in Workers |-> NoWork]
    /\ HostsIdle

SpecPhrases == InitPhrases /\ [][ConvertToSecondPerson]_vars

\* ------------------------------------------------------------------------
\* web_app: the /analyze and /transcribe endpoints on the module-level engine
\* ------------------------------------------------------------------------

\* The requests that reach the engine in one run of the server.
MaxRequests == 1

WebTexts == {"My boss gave me an impossible deadline and I'm furious!", "so very sad!"}

\* The labels predict_emotion answers with.
ClassifierLabels == {"anger"}

Failed(route, text, status, error, engine_called) ==
    [route |-> route, text |-> text, status |-> status, keys |-> {"error"},
     error |-> error, engine_called |-> engine_called]

\* The call of generate_empathetic_response a host makes on its engine.
EngineCall(text, emotion) ==
    [NoCall EXCEPT !.phase = "called", !.op = "generate_empathetic_response",
                   !.text = text, !.emotion = emotion, !.n = call.n]

\* analyze_text, the whole handler.  The body is no JSON object
\* (request.get_json() gives None), an object without text or with an empty
\* one, or an object with a text.  After the engine has answered, the
\* handler evaluates context.lower() on the dict identify_context returned,
\* which raises AttributeError: the except clause answers 500.
AnalyzeText ==
    /\ call.n < MaxRequests
    /\ \E body \in {[json |-> FALSE, text |-> ""], [json |-> TRUE, text |-> ""]}
                    \cup {[json |-> TRUE, text |-> text] : text \in WebTexts} :
          IF ~body.json
          THEN /\ response' = Failed("/analyze", "", 500, "AttributeError", FALSE)
               /\ UNCHANGED <<follow_up_phrases, call>>
          ELSE IF body.text = ""
          THEN /\ response' = Failed("/analyze", "", 400, "", FALSE)
               /\ UNCHANGED <<follow_up_phrases, call>>
          ELSE \E emotion \in ClassifierLabels :
                  /\ Generate(EngineCall(body.text, emotion))
                  /\ response' = Failed("/analyze", body.text, 500,
                                        IF call'.raised # "" THEN call'.raised
                                        ELSE "AttributeError", TRUE)
    /\ UNCHANGED <<hash_seed, workers, recorder, gui, simple>>

\* transcribe_audio, the whole handler.  The body is no JSON object, an
\* object without audio_data, data that cannot be decoded or read as a WAV
\* file, or a recording.  recognize_google raises
\* UnknownValueError or RequestError, or it returns the text.
TranscribeAudio ==
    /\ call.n < MaxRequests
    /\ \E body \in {[json |-> FALSE, audio_data |-> ""], [json |-> TRUE, audio_data |-> ""],
                    [json |-> TRUE, audio_data |-> "malformed"],
                    [json |-> TRUE, audio_data |-> "wav"]} :
          IF ~body.json
          THEN /\ response' = Failed("/transcribe", "", 500, "AttributeError", FALSE)
               /\ UNCHANGED <<follow_up_phrases, call>>
          ELSE IF body.audio_data = ""
          THEN /\ response' = Failed("/transcribe", "", 400, "", FALSE)
               /\ UNCHANGED <<follow_up_phrases, call>>
          ELSE IF body.audio_data = "malformed"
          THEN /\ response' = Failed("/transcribe", "", 500, "Exception", FALSE)
               /\ UNCHANGED <<follow_up_phrases, call>>
          ELSE \E recognised \in {"UnknownValueError", "RequestError"} \cup WebTexts :
                  IF recognised = "UnknownValueError"
                  THEN /\ response' = Failed("/transcribe", "", 400, recognised, FALSE)
                       /\ UNCHANGED <<follow_up_phrases, call>>
                  ELSE IF recognised = "RequestError"
                  THEN /\ response' = Failed("/transcribe", "", 500, recognised, FALSE)
                       /\ UNCHANGED <<follow_up_phrases, call>>
                  ELSE \E emotion \in ClassifierLabels :
                          /\ Generate(EngineCall(recognised, emotion))
                          /\ response' =
                                IF call'.raised # ""
                                THEN Failed("/transcribe", recognised, 500, call'.raised, TRUE)
                                ELSE [route |-> "/transcribe", text |-> recognised,
                                      status |-> 200,
                                      keys |-> {"text", "emotion", "empathetic_response",
                                                "intensity", "context"},
                                      error |-> "", engine_called |-> TRUE]
    /\ UNCHANGED <<hash_seed, workers, recorder, gui, simple>>

NextWeb ==
    \/ AnalyzeText
    \/ TranscribeAudio

SpecWeb == Init /\ [][NextWeb]_vars

\* ------------------------------------------------------------------------
\* gui_app and recorder: the recording GUI, its AudioRecorder, the capture
\* threads and the process_audio threads
\* ------------------------------------------------------------------------

\* The clicks on the record button in one run.
MaxClicks == 3

\* AudioRecorder.start_recording, called with the recorder in state r: the
\* pair <<what it returns, the recorder afterwards>>.
start_recording(r) ==
    IF r.is_recording
    THEN <<FALSE, r>>
    ELSE <<TRUE, [r EXCEPT !.is_recording = TRUE, !.threads = Append(@, "listen")]>>

\* toggle_recording, the whole click handler: start_recording when the GUI
\* shows 'not recording' (a refusal of the recorder only opens an error
\* dialog), stop_recording otherwise (the flag is cleared and a process_audio
\* thread is started).
ToggleRecording ==
    /\ gui.clicks < MaxClicks
    /\ IF ~gui.is_recording
       THEN \E started \in {start_recording(recorder)} :
               /\ recorder' = started[2]
               /\ gui' = [gui EXCEPT !.is_recording = started[1],
                                     !.clicks = @ + 1,
                                     !.last_click = IF started[1] THEN "started"
                                                    ELSE "refused"]
       ELSE /\ gui' = [gui EXCEPT !.is_recording = FALSE,
                                  !.processors = Append(@, "stop_recording"),
                                  !.clicks = @ + 1,
                                  !.last_click = "stopped"]
            /\ UNCHANGED recorder
    /\ UNCHANGED <<follow_up_phrases, hash_seed, call, workers, response, simple>>

\* _record_audio, first step: listen() on the microphone.  It returns the
\* audio it heard, or an exception (no speech within the timeout, the
\* microphone already in use by another capture thread) ends the thread in
\* the except clause, which clears the recorder's flag.
RecordAudioListen(t) ==
    /\ recorder.threads[t] = "listen"
    /\ \/ recorder' = [recorder EXCEPT !.threads[t] = "heard"]
       \/ recorder' = [recorder EXCEPT !.threads[t] = "done", !.is_recording = FALSE]
    /\ UNCHANGED <<follow_up_phrases, hash_seed, call, workers, response, gui, simple>>

\* _record_audio, second step: the audio is put on the queue if the flag is
\* set when the thread looks at it.
RecordAudioPut(t) ==
    /\ recorder.threads[t] = "heard"
    /\ recorder' = [recorder EXCEPT
                        !.threads[t] = "done",
                        !.audio_queue = IF recorder.is_recording THEN Append(@, t) ELSE @]
    /\ UNCHANGED <<follow_up_phrases, hash_seed, call, workers, response, gui, simple>>

\* process_audio entering AudioRecorder.stop_recording: None at once when
\* the flag is clear (the thread queues an error message and ends),
\* otherwise the flag is cleared and the thread goes on to join.
ProcessAudioStop(p) ==
    /\ gui.processors[p] = "stop_recording"
    /\ IF ~recorder.is_recording
       THEN /\ gui' = [gui EXCEPT !.processors[p] = "done",
                                  !.message_queue = Append(@, "error")]
            /\ UNCHANGED recorder
       ELSE /\ recorder' = [recorder EXCEPT !.is_recording = FALSE]
            /\ gui' = [gui EXCEPT !.processors[p] = "join"]
    /\ UNCHANGED <<follow_up_phrases, hash_seed, call, workers, response, simple>>

\* The rest of stop_recording: join(timeout = 2) returns whether or not the
\* capture thread has ended, then get_nowait() takes the head of the audio
\* queue.  An empty queue, or a recording _save_audio cannot write, gives
\* None: process_audio queues an error message and ends.  Otherwise it
\* queues the status message and goes on to transcribe.
ProcessAudioJoin(p) ==
    /\ gui.processors[p] = "join"
    /\ IF recorder.audio_queue = <<>>
       THEN /\ gui' = [gui EXCEPT !.processors[p] = "done",
                                  !.message_queue = Append(@, "error")]
            /\ UNCHANGED recorder
       ELSE /\ recorder' = [recorder EXCEPT !.audio_queue = Tail(@)]
            /\ \/ gui' = [gui EXCEPT !.processors[p] = "done",
                                     !.message_queue = Append(@, "error")]
               \/ gui' = [gui EXCEPT !.processors[p] = "transcribe",
                                     !.message_queue = Append(@, "status")]
    /\ UNCHANGED <<follow_up_phrases, hash_seed, call, workers, response, simple>>

\* process_audio after stop_recording: no transcription gives an error
\* message; otherwise the engine is called with the label "neutral" and the
\* thread queues the transcription, the response and the final status, or
\* the error message of the except clause.
ProcessAudioTranscribe(p) ==
    /\ gui.processors[p] = "transcribe"
    /\ \/ /\ gui' = [gui EXCEPT !.processors[p] = "done",
                                !.message_queue = Append(@, "error")]
          /\ UNCHANGED <<follow_up_phrases, call>>
       \/ \E transcribed_text \in {"so very sad!"} :
             /\ Generate(EngineCall(transcribed_text, "neutral"))
             /\ gui' = [gui EXCEPT
                           !.processors[p] = "done",
                           !.message_queue =
                               IF call'.raised # ""
                               THEN @ \o <<"status", "error">>
                               ELSE @ \o <<"status", "transcription", "response", "status">>]
    /\ UNCHANGED <<hash_seed, workers, response, recorder, simple>>

\* Whether a message of the given type waits in a queue.
Queued(message_queue, message_type) ==
    \E i \in 1..Len(message_queue) : message_queue[i] = message_type

\* check_message_queue of the recording GUI, the whole callback: the queue
\* is drained, and an error message calls reset_ui, which clears the GUI's
\* flag.
CheckMessageQueue ==
    /\ gui.message_queue # <<>>
    /\ gui' = [gui EXCEPT !.message_queue = <<>>,
                          !.is_recording = IF Queued(gui.message_queue, "error")
                                           THEN FALSE ELSE @]
    /\ UNCHANGED <<follow_up_phrases, hash_seed, call, workers, response, recorder, simple>>

NextGui ==
    \/ ToggleRecording
    \/ \E t \in DOMAIN recorder.threads : RecordAudioListen(t)
    \/ \E t \in DOMAIN recorder.threads : RecordAudioPut(t)
    \/ \E p \in DOMAIN gui.processors : ProcessAudioStop(p)
    \/ \E p \in DOMAIN gui.processors : ProcessAudioJoin(p)
    \/ \E p \in DOMAIN gui.processors : ProcessAudioTranscribe(p)
    \/ CheckMessageQueue

SpecGui == Init /\ [][NextGui]_vars

\* ------------------------------------------------------------------------
\* simple_gui: the text-only GUI and its process_text_thread threads
\* ------------------------------------------------------------------------

\* process_emotions, the whole click handler (a disabled button takes no
\* click): an empty input only opens a warning; otherwise the button is
\* disabled and a process_text_thread is started.
ProcessEmotions ==
    /\ simple.button = "normal"
    /\ call.n < MaxCalls
    /\ \E input_text \in {"", "so very sad!"} :
          simple' = IF input_text = "" THEN simple
                    ELSE [simple EXCEPT !.button = "disabled",
                                        !.threads = Append(@, [pc |-> "generate",
                                                               text |-> input_text])]
    /\ UNCHANGED <<follow_up_phrases, hash_seed, call, workers, response, recorder, gui>>

\* process_text_thread calling the engine with the label "neutral": an
\* exception takes the thread to the except clause.
ProcessTextThread(w) ==
    /\ simple.threads[w].pc = "generate"
    /\ Generate(EngineCall(simple.threads[w].text, "neutral"))
    /\ simple' = [simple EXCEPT !.threads[w].pc = IF call'.raised # "" THEN "error"
                                                  ELSE "transcription"]
    /\ UNCHANGED <<hash_seed, workers, response, recorder, gui>>

\* The message process_text_thread puts next, and where it goes from there.
NextPut(pc) ==
    CASE pc = "transcription" -> "response"
      [] pc = "response" -> "status"
      [] pc = "status" -> "done"
      [] pc = "error" -> "done"

\* process_text_thread ending without its last message.
PutMessageWithoutStatus(w) ==
    /\ simple.threads[w].pc \in {"transcription", "response", "status", "error"}
    /\ simple' = [simple EXCEPT
                     !.message_queue = IF simple.threads[w].pc \in {"status", "error"} THEN @
                                       ELSE Append(@, simple.threads[w].pc),
                     !.threads[w].pc = NextPut(simple.threads[w].pc)]
    /\ UNCHANGED <<follow_up_phrases, hash_seed, call, workers, response, recorder, gui>>

\* process_text_thread putting one message on the queue.
PutMessage(w) ==
    /\ simple.threads[w].pc \in {"transcription", "response", "status", "error"}
    /\ simple' = [simple EXCEPT !.message_queue = Append(@, simple.threads[w].pc),
                                !.threads[w].pc = NextPut(simple.threads[w].pc)]
    /\ UNCHANGED <<follow_up_phrases, hash_seed, call, workers, response, recorder, gui>>

\* check_message_queue of the text-only GUI, the whole callback: the queue
\* is drained, and a status or an error message enables the button.
SimpleCheckMessageQueue ==
    /\ simple.message_queue # <<>>
    /\ simple' = [simple EXCEPT
                     !.message_queue = <<>>,
                     !.button = IF \/ Queued(simple.message_queue, "status")
                                   \/ Queued(simple.message_queue, "error")
                                THEN "normal" ELSE @]
    /\ UNCHANGED <<follow_up_phrases, hash_seed, call, workers, response, recorder, gui>>

\* ProcessTextThread(w) as the thread itself sees it: started and at its
\* engine call, it gets past the call, to its first put or to the except
\* clause.  (The engine answers every call, so the step is enabled whenever
\* the thread is at the call.)
GetsPastEngineCall(w) ==
    /\ w \in DOMAIN simple.threads
    /\ simple.threads[w].pc = "generate"
    /\ \E pc \in {"transcription", "error"} : simple' = [simple EXCEPT !.threads[w].pc = pc]

NextSimple ==
    \/ ProcessEmotions
    \/ \E w \in DOMAIN simple.threads : ProcessTextThread(w)
    \/ \E w \in DOMAIN simple.threads : PutMessage(w)
    \/ SimpleCheckMessageQueue

\* The worker threads are scheduled and the queue check is rescheduled every
\* 100 ms by root.after: no step of theirs waits forever.
SpecSimple ==
    /\ Init
    /\ [][NextSimple]_vars
    /\ \A w \in 1..MaxCalls : WF_simple(GetsPastEngineCall(w)) /\ WF_vars(w \in DOMAIN simple.threads /\ PutMessage(w))
    /\ WF_vars(SimpleCheckMessageQueue)
\* ------------------------------------------------------------------------
\* Properties
\* ------------------------------------------------------------------------

\* generate_empathetic_response has returned or raised.
Replied == call.phase = "returned" /\ call.op = "generate_empathetic_response"

\* The follow-up phrases a call draws from on an engine as __init__ leaves it.
FreshOptions(main_context, intensity, emotion_tag) ==
    Lookup(InitFollowUpPhrases, intensity)
        \o followup_extension(main_context, intensity, emotion_tag)

\* The replies a call can return on an engine as __init__ leaves it.
FreshReplies(context_summary, main_context, intensity, emotion_tag) ==
    {final_response(main_response, follow_up, intensity, transition) :
        main_response \in {str_format(pattern, context_summary) :
                              pattern \in SeqToSet(available_patterns(emotion_tag, intensity))},
        follow_up \in SeqToSet(FreshOptions(main_context, intensity, emotion_tag)),
        transition \in transition_choices(intensity)}

\* C1: after any sequence of calls on one engine every lexicon table equals
\* its value right after initialisation; no follow-up pool ever gains entries.
\* (The other tables are never assigned by any method; the follow-up pools
\* are the table the calls can reach.)
C1_TablesAsInitialised == follow_up_phrases = InitFollowUpPhrases

\* C2: generate_empathetic_response keeps no state across calls: a reply an
\* engine returns after earlier calls is a reply the same call can return on a
\* freshly initialised engine.
C2_RepliesAsOnFreshEngine ==
    (Replied /\ call.raised = "") =>
        call.value \in FreshReplies(call.context_summary, call.context_info.main_context,
                                    call.intensity, call.emotion_tag)

\* C3: for every (text, emotion), also for text that holds the characters
\* {context} itself, the reply is a non-empty string without a literal
\* {context} placeholder.
C3_NoPlaceholderInReply ==
    Replied => (call.value # "" /\ ~Contains(call.value, "{context}"))

C5_ThreadsDoNotInterfere ==
    \A w \in Workers :
        (workers[w].pc = "done" /\ workers[w].raised = "") =>
            workers[w].value \in FreshReplies(workers[w].context_summary,
                                              workers[w].main_context,
                                              workers[w].intensity, workers[w].emotion_tag)

\* C6: in every reply, after any earlier calls, the follow-up phrase (letter
\* case ignored) is an entry of the initial pool of this call's intensity, or
\* a work extra if this call is work at high intensity, or a relationship
\* extra if this call is relationship with sadness or anger.
C6_FollowUpFromOwnPool ==
    (Replied /\ call.raised = "") =>
        str_lower(call.follow_up) \in
            {str_lower(phrase) :
                phrase \in SeqToSet(FreshOptions(call.context_info.main_context,
                                                 call.intensity, call.emotion_tag))}

\* C7 as stated: at every intensity the reply is the selected template with
\* the summary in its placeholder, one space, and the follow-up phrase as it
\* stands in its pool.
C7_TemplateSpaceFollowUp ==
    (Replied /\ call.raised = "") =>
        call.value = str_format(call.selected_pattern, call.context_summary)
                        \o " " \o call.follow_up

\* C7 as amended: at high intensity the reply is the selected template with
\* the summary in its placeholder, one space, and the follow-up phrase as it
\* stands in its pool; at medium and low intensity the space is followed by
\* one of the four transitions ("", "I'm curious, ", "I wonder, ",
\* "If you don't mind me asking, ") and then the follow-up phrase lower-cased.
C7_ReplyAssembly ==
    (Replied /\ call.raised = "") =>
        IF call.intensity = "high_intensity"
        THEN call.value = str_format(call.selected_pattern, call.context_summary)
                             \o " " \o call.follow_up
        ELSE \E softener \in {"", "I'm curious, ", "I wonder, ",
                              "If you don't mind me asking, "} :
                call.value = str_format(call.selected_pattern, call.context_summary)
                                \o " " \o softener \o str_lower(call.follow_up)

\* A reply below high intensity that carries a transition.
C7_SoftenedReply ==
    /\ Replied
    /\ call.raised = ""
    /\ call.intensity # "high_intensity"
    /\ call.transition = "I wonder, "
    /\ call.follow_up # str_lower(call.follow_up)
    /\ Contains(call.value, " I wonder, ")

\* C8: the label is lower-cased first; a label that is then a handled tag is
\* used unchanged whatever the text says; and for every label the resolved
\* tag is one of the 9 handled tags.
C8_ResolvedTagIsHandled ==
    Replied =>
        /\ call.emotion_tag \in {"anger", "sadness", "fear", "joy", "surprise", "disgust",
                                 "disappointment", "embarrassment", "neutral"}
        /\ call.emotion_tag \in HandledTags
        /\ str_lower(call.emotion) \in HandledTags => call.emotion_tag = str_lower(call.emotion)

\* An upper-case handled label kept against the text's own keywords.
C8_UpperCaseLabelKept ==
    /\ Replied
    /\ call.emotion = "ANGER"
    /\ call.text = "so very sad!"
    /\ call.emotion_tag = "anger"

\* The labels of each category that are no handled tag.
PositiveLabels ==
    {"admiration", "amusement", "approval", "caring", "curiosity", "desire", "excitement",
     "gratitude", "love", "optimism", "pride", "realization", "relief"}
NegativeLabels == {"annoyance", "disapproval", "grief", "nervousness", "remorse"}
NeutralLabels == {"confusion"}

\* The keyword groups of the negative branch in the order they are tested:
\* the tag, the sub_contexts that select it, its keywords.
KeywordGroups ==
    <<<<"anger", {}, {"frustrated", "angry", "mad", "infuriated"}>>,
      <<"sadness", {}, {"sad", "depressed", "heartbroken", "devastated"}>>,
      <<"fear", {}, {"scared", "afraid", "worried", "anxious", "nervous"}>>,
      <<"disappointment", {}, {"disappointed", "let down", "expected", "hoped"}>>,
      <<"embarrassment", {}, {"embarrassed", "ashamed", "humiliated", "mortified"}>>,
      <<"disgust", {}, {"disgusted", "repulsed", "sick", "revolting"}>>>>

\* The same groups with the sub_contexts the code consults beside the keywords.
KeywordGroupsWithSubContext ==
    [KeywordGroups EXCEPT ![1][2] = {"work_stress"},
                          ![2][2] = {"relationship_loss", "loss_grief"}]

\* The tag of the first group found, or the default by main_context.
FirstGroupTag(groups, text_lower, context_info) ==
    LET found == {i \in 1..Len(groups) :
                     \/ context_info.sub_context \in groups[i][2]
                     \/ \E keyword \in groups[i][3] : Contains(text_lower, keyword)}
    IN  IF found # {} THEN groups[Min(found)][1]
        ELSE IF context_info.main_context \in {"work", "school"} THEN "anger"
        ELSE "sadness"

\* The tag C9 gives a label that is no handled tag.
TagByCategory(groups) ==
    IF str_lower(call.emotion) \in PositiveLabels THEN "joy"
    ELSE IF str_lower(call.emotion) \in NeutralLabels THEN "neutral"
    ELSE FirstGroupTag(groups, str_lower(call.text), call.context_info)

\* C9 as stated: a positive-category label resolves to joy, a
\* neutral-category label to neutral, a negative-category label to the tag of
\* the first keyword group found in the lower-cased text (anger, sadness,
\* fear, disappointment, embarrassment, disgust), else to anger if
\* main_context is work or school and to sadness otherwise.
C9_ByKeywordGroups ==
    (Replied /\ str_lower(call.emotion) \in PositiveLabels \cup NeutralLabels \cup NegativeLabels) =>
        call.emotion_tag = TagByCategory(KeywordGroups)

\* C9 as amended: as stated, but for a negative-category label the anger
\* group is also found when sub_context is work_stress, and the sadness group
\* also when sub_context is relationship_loss or loss_grief.
C9_ByKeywordGroupsAndSubContext ==
    (Replied /\ str_lower(call.emotion) \in PositiveLabels \cup NeutralLabels \cup NegativeLabels) =>
        call.emotion_tag = TagByCategory(KeywordGroupsWithSubContext)

\* A negative-category label resolved by sub_context against the keywords.
C9_SubContextDecides ==
    /\ Replied
    /\ call.emotion = "grief"
    /\ call.text = "sad about the deadline"
    /\ call.context_info.sub_context = "work_stress"
    /\ call.emotion_tag = "anger"

\* C10 as stated: for "I am scared about my exam tomorrow" and the label
\* "unknown_label", which the emotion label map lacks, the resolved tag is fear.
C10_UnknownLabelResolvesToFear ==
    (/\ Replied
     /\ call.text = "I am scared about my exam tomorrow"
     /\ call.emotion = "unknown_label") => call.emotion_tag = "fear"

\* C10 as amended: for that text and label the resolved tag is neutral: a
\* label the emotion label map lacks takes the neutral category, and the
\* keywords of the text are not consulted.
C10_UnknownLabelResolvesToNeutral ==
    (/\ Replied
     /\ call.text = "I am scared about my exam tomorrow"
     /\ call.emotion = "unknown_label") => call.emotion_tag = "neutral"

\* That call answered, with the fear keyword in its text.
C10_UnknownLabelAnswered ==
    /\ Replied
    /\ call.text = "I am scared about my exam tomorrow"
    /\ call.emotion = "unknown_label"
    /\ ~HasKey(emotion_mapping, call.emotion)
    /\ Contains(str_lower(call.text), "scared")
    /\ call.emotion_tag = "neutral"

\* The templates of a pool that hold one of the strong words, letter case ignored.
StrongTemplates(pool) ==
    {template \in SeqToSet(pool) :
        \E word \in {"really", "completely", "absolutely", "deeply", "truly", "so",
                     "incredibly"} : Contains(str_lower(template), word)}

\* C11 as stated: the selected template belongs to the pool of the resolved
\* tag, and at every intensity each template of that pool can be selected.
C11_WholePoolSelectable ==
    (Replied /\ call.raised = "") =>
        /\ call.selected_pattern \in SeqToSet(Lookup(empathetic_patterns, call.emotion_tag))
        /\ SeqToSet(available_patterns(call.emotion_tag, call.intensity))
              = SeqToSet(Lookup(empathetic_patterns, call.emotion_tag))

\* C11 as amended: the selected template belongs to the pool of the resolved
\* tag; at medium and low intensity each template of the pool can be selected;
\* at high intensity the selection ranges over exactly the templates of the
\* pool that hold one of the words really, completely, absolutely, deeply,
\* truly, so, incredibly (letter case ignored), and over the whole pool only
\* when no template holds one.
C11_PoolOrStrongTemplates ==
    (Replied /\ call.raised = "") =>
        \E pool \in {SeqToSet(Lookup(empathetic_patterns, call.emotion_tag))} :
        \E selectable \in {SeqToSet(available_patterns(call.emotion_tag, call.intensity))} :
            /\ call.selected_pattern \in pool
            /\ call.selected_pattern \in selectable
            /\ IF call.intensity # "high_intensity" THEN selectable = pool
               ELSE \E strong \in {StrongTemplates(Lookup(empathetic_patterns,
                                                           call.emotion_tag))} :
                       selectable = IF strong # {} THEN strong ELSE pool

\* A high-intensity reply for a tag whose pool holds templates without a
\* strong word.
C11_StrongTemplateSelected ==
    /\ Replied
    /\ call.raised = ""
    /\ call.intensity = "high_intensity"
    /\ call.emotion_tag = "anger"
    /\ call.selected_pattern \in StrongTemplates(Lookup(empathetic_patterns, "anger"))
    /\ StrongTemplates(Lookup(empathetic_patterns, "anger"))
          # SeqToSet(Lookup(empathetic_patterns, "anger"))

\* identify_context has returned.
ContextIdentified == call.phase = "returned" /\ call.op = "identify_context"

\* C12: the main_context identify_context returns is always one of work,
\* relationship, health, school, financial, personal, life_events,
\* loss_grief, general, also for text that matches context-pattern phrases.
C12_MainContextInEnumeration ==
    ContextIdentified =>
        call.context_info.main_context \in
            {"work", "relationship", "health", "school", "financial", "personal",
             "life_events", "loss_grief", "general"}

\* The points the keyword loop and the pattern loop give a topic for a text:
\* 3 or 1 for each keyword of the topic, 5 for each phrase in the text whose
\* sub-topic name starts with the topic and an underscore.
AggregatedScore(topic, text_lower) ==
    LET in_words == " " \o text_lower \o " "
        whole == {pair \in {<<i, k>> : i \in 1..Len(context_keywords), k \in 1..40} :
                     /\ context_keywords[pair[1]][1] = topic
                     /\ pair[2] <= Len(context_keywords[pair[1]][2])
                     /\ Contains(in_words,
                                 " " \o context_keywords[pair[1]][2][pair[2]] \o " ")}
        part == {pair \in {<<i, k>> : i \in 1..Len(context_keywords), k \in 1..40} :
                     /\ context_keywords[pair[1]][1] = topic
                     /\ pair[2] <= Len(context_keywords[pair[1]][2])
                     /\ pair \notin whole
                     /\ Contains(text_lower, context_keywords[pair[1]][2][pair[2]])}
        phrases == {pair \in {<<i, k>> : i \in 1..Len(context_patterns), k \in 1..10} :
                     /\ StartsWith(context_patterns[pair[1]][1], topic \o "_")
                     /\ pair[2] <= Len(context_patterns[pair[1]][2])
                     /\ Contains(text_lower, context_patterns[pair[1]][2][pair[2]])}
    IN  3 * Cardinality(whole) + Cardinality(part) + 5 * Cardinality(phrases)

\* C13: main_context is a topic of the highest aggregated score and
\* context_score is that score; among topics of equal highest score the one
\* entered first into context_scores is chosen; when no topic scored,
\* main_context is general and context_score 0.
C13_MainContextHasHighestScore ==
    ContextIdentified =>
        IF call.context_scores = <<>>
        THEN /\ call.context_info.main_context = "general"
             /\ call.context_info.context_score = 0
        ELSE /\ \A i \in 1..Len(call.context_scores) :
                   call.context_scores[i][2]
                       = AggregatedScore(call.context_scores[i][1], str_lower(call.text))
             /\ \E i \in 1..Len(call.context_scores) :
                   /\ call.context_scores[i][1] = call.context_info.main_context
                   /\ call.context_scores[i][2] = call.context_info.context_score
                   /\ \A j \in 1..Len(call.context_scores) :
                         call.context_scores[j][2] <= call.context_scores[i][2]
                   /\ \A j \in 1..(i - 1) :
                         call.context_scores[j][2] < call.context_scores[i][2]

\* Two topics of equal highest score: the first entered is returned.
C13_TieGoesToFirstEntered ==
    /\ ContextIdentified
    /\ call.text = "my job and my friend"
    /\ call.context_scores = <<<<"work", 3>>, <<"relationship", 3>>>>
    /\ call.context_info.main_context = "work"
    /\ call.context_info.context_score = 3

\* The positions where a word of more than one character, with an upper-case
\* letter and without a lower-case one, starts.
UpperCaseWordStarts(text) ==
    {first \in 1..Len(text) :
        /\ ~IsSpace(Char(text, first))
        /\ first = 1 \/ IsSpace(Char(text, first - 1))
        /\ first < Len(text) /\ ~IsSpace(Char(text, first + 1))
        /\ \E i \in first..Len(text) :
              /\ Char(text, i) \in UpperSet
              /\ \A j \in first..i : ~IsSpace(Char(text, j))
        /\ \A i \in first..Len(text) :
              (\A j \in first..i : ~IsSpace(Char(text, j))) => Char(text, i) \notin LowerSet}

\* The positions where a run of three or more equal characters starts.
RunStarts(text_lower) ==
    {i \in 1..(Len(text_lower) - 2) :
        /\ Char(text_lower, i) = Char(text_lower, i + 1)
        /\ Char(text_lower, i) = Char(text_lower, i + 2)
        /\ i = 1 \/ Char(text_lower, i - 1) # Char(text_lower, i)}

\* The intensity score of C14, for a given number of runs of equal characters.
IntensityScore(text, runs) ==
    2 * Cardinality({i \in 1..Len(text) : Char(text, i) = "!"})
    + Cardinality({i \in 1..Len(text) : Char(text, i) = "?"})
    + Cardinality(UpperCaseWordStarts(text))
    + 3 * Cardinality({word \in SeqToSet(Lookup(intensity_words, "high")) :
                          Contains(str_lower(text), word)})
    + Cardinality({word \in SeqToSet(Lookup(intensity_words, "medium")) :
                      Contains(str_lower(text), word)})
    + 2 * runs

\* The level that C14 gives to a score.
LevelOfScore(score) ==
    IF score > 4 THEN "high_intensity"
    ELSE IF score > 1 THEN "medium_intensity" ELSE "low_intensity"

\* calculate_emotional_intensity has returned.
IntensityCalculated ==
    call.phase = "returned" /\ call.op = "calculate_emotional_intensity"

\* C14: calculate_emotional_intensity returns high_intensity exactly when
\* score > 4, medium_intensity exactly when 1 < score <= 4 and low_intensity
\* exactly when score <= 1, for score = 2 * '!' + '?' + upper-case words of
\* more than one character + 3 * high-tier words present + medium-tier words
\* present + 2 * runs of three or more equal characters (case ignored); no
\* other level is returned.
C14_IntensityByScore ==
    IntensityCalculated =>
        call.value = LevelOfScore(IntensityScore(call.text,
                          Cardinality(RunStarts(str_lower(call.text)))))

\* C14 as the code has it: the score is the one above, but a run of line
\* breaks is not counted among the runs of equal characters.
C14_IntensityByScoreOutsideLineBreaks ==
    IntensityCalculated =>
        call.value = LevelOfScore(IntensityScore(call.text,
                          Cardinality({i \in RunStarts(str_lower(call.text)) :
                                          Char(call.text, i) # "\n"})))

\* A text with three line breaks in a row and nothing else that scores is
\* classified low_intensity.
C14_LineBreakRunIsLow ==
    /\ IntensityCalculated
    /\ call.text = "ok\n\n\nok"
    /\ RunStarts(str_lower(call.text)) = {3}
    /\ call.value = "low_intensity"

\* A first-person marker stands in the text as a whole word, in any letter case.
HasFirstPersonWord(text) ==
    \E marker \in {"i", "me", "my", "mine", "myself"} :
    \E i \in 1..(Len(text) - Len(marker) + 1) :
        /\ str_lower(SubSeq(text, i, i + Len(marker) - 1)) = marker
        /\ i = 1 \/ ~IsWordChar(Char(text, i - 1))
        /\ i + Len(marker) > Len(text) \/ ~IsWordChar(Char(text, i + Len(marker)))

\* convert_to_second_person has returned.
Converted == call.phase = "returned" /\ call.op = "convert_to_second_person"

\* C15: for every text without a first-person marker as a whole word (I, me,
\* my, mine, myself, which every I-contraction and I-verb phrase starts
\* with), convert_to_second_person returns the text unchanged.
C15_NoMarkerNoChange ==
    (Converted /\ ~HasFirstPersonWord(call.text)) => call.value = call.text

\* A text that holds "me" only inside other words comes back unchanged.
C15_EmbeddedMarkerUnchanged ==
    /\ Converted
    /\ call.text = "You gave them some time at home"
    /\ ~HasFirstPersonWord(call.text)
    /\ Contains(call.text, "me")
    /\ call.value = call.text

\* C16: convert_to_second_person is idempotent: applied to its own output it
\* returns that output.
C16_ConvertIdempotent ==
    Converted => convert_to_second_person(call.value) = call.value

\* A text that the conversion changed and whose output it leaves alone.
C16_ConvertedTextStable ==
    /\ Converted
    /\ call.text = "I see you. My dog is mine"
    /\ call.value = "You see you. your dog is yours"
    /\ convert_to_second_person(call.value) = call.value

\* The score context_scores holds for a topic, 0 when the topic has no entry.
ScoreOf(context_scores, topic) ==
    IF \E i \in 1..Len(context_scores) : context_scores[i][1] = topic
    THEN context_scores[CHOOSE i \in 1..Len(context_scores) : context_scores[i][1] = topic][2]
    ELSE 0

\* The keyword stands in the text between word boundaries: the start or the
\* end of the text, whitespace or punctuation.
IsWholeWord(keyword, text_lower) ==
    \E i \in 1..(Len(text_lower) - Len(keyword) + 1) :
        /\ SubSeq(text_lower, i, i + Len(keyword) - 1) = keyword
        /\ i = 1 \/ ~IsWordChar(Char(text_lower, i - 1))
        /\ i + Len(keyword) > Len(text_lower)
              \/ ~IsWordChar(Char(text_lower, i + Len(keyword)))

\* The points C19 gives a keyword.
BoundaryPoints(keyword, text_lower) ==
    IF IsWholeWord(keyword, text_lower) THEN 3
    ELSE IF Contains(text_lower, keyword) THEN 1 ELSE 0

\* The positions (entry, index) of the keywords of a topic that have the
\* given number of points.
KeywordsWithPoints(topic, text_lower, points) ==
    {pair \in {<<i, k>> : i \in 1..Len(context_keywords), k \in 1..40} :
        /\ context_keywords[pair[1]][1] = topic
        /\ pair[2] <= Len(context_keywords[pair[1]][2])
        /\ BoundaryPoints(context_keywords[pair[1]][2][pair[2]], text_lower) = points}

\* The positions (entry, index) of the phrases in the text whose sub-topic
\* has the topic as its parent.
PhrasesPresent(topic, text_lower) ==
    {pair \in {<<i, k>> : i \in 1..Len(context_patterns), k \in 1..10} :
        /\ StartsWith(context_patterns[pair[1]][1], topic \o "_")
        /\ pair[2] <= Len(context_patterns[pair[1]][2])
        /\ Contains(text_lower, context_patterns[pair[1]][2][pair[2]])}

\* C19: each keyword of a topic adds 3 points to the topic when it stands in
\* the lower-cased text as a whole word (between word boundaries), otherwise
\* 1 point when it is a substring, otherwise nothing, never both; every
\* keyword that scored is in key_elements.
C19_KeywordPointsByWordBoundary ==
    ContextIdentified =>
        \A i \in 1..Len(context_keywords) :
            /\ ScoreOf(call.context_scores, context_keywords[i][1])
                  = 3 * Cardinality(KeywordsWithPoints(context_keywords[i][1],
                                                       str_lower(call.text), 3))
                    + Cardinality(KeywordsWithPoints(context_keywords[i][1],
                                                     str_lower(call.text), 1))
                    + 5 * Cardinality(PhrasesPresent(context_keywords[i][1],
                                                     str_lower(call.text)))
            /\ \A k \in 1..Len(context_keywords[i][2]) :
                  BoundaryPoints(context_keywords[i][2][k], str_lower(call.text)) > 0
                      => context_keywords[i][2][k] \in SeqToSet(call.context_info.key_elements)

\* The sub-topics (entries of context_patterns) with a phrase in the text.
SubTopicsPresent(text_lower) ==
    {i \in 1..Len(context_patterns) :
        \E k \in 1..Len(context_patterns[i][2]) :
            Contains(text_lower, context_patterns[i][2][k])}

\* The keyword points alone that a topic has in the text.
KeywordScore(topic, text_lower) ==
    AggregatedScore(topic, text_lower) - 5 * Cardinality(PhrasesPresent(topic, text_lower))

\* The sub-topic name up to its first underscore.
ParentOf(pattern_name) ==
    SubSeq(pattern_name, 1,
           Min({n \in 1..(Len(pattern_name) + 1) :
                   n = Len(pattern_name) + 1 \/ Char(pattern_name, n) = "_"}) - 1)

\* C20: each sub-topic with at least one phrase in the lower-cased text adds
\* 5 points to its parent topic and is recorded in detected_patterns, once
\* whatever the number of its phrases that match; a sub-topic without a phrase
\* in the text adds nothing and is not recorded.
C20_FivePointsPerSubTopic ==
    ContextIdentified =>
        /\ \A i \in 1..Len(context_patterns) :
              /\ Cardinality({n \in 1..Len(call.context_info.detected_patterns) :
                                 call.context_info.detected_patterns[n] = context_patterns[i][1]})
                    = IF i \in SubTopicsPresent(str_lower(call.text)) THEN 1 ELSE 0
              /\ ScoreOf(call.context_scores, ParentOf(context_patterns[i][1]))
                    = KeywordScore(ParentOf(context_patterns[i][1]), str_lower(call.text))
                      + 5 * Cardinality({j \in SubTopicsPresent(str_lower(call.text)) :
                                            ParentOf(context_patterns[j][1])
                                                = ParentOf(context_patterns[i][1])})

\* The text and the emotion of the example of C18, answered as the first call
\* on the engine.
BossExampleAnswered ==
    /\ Replied
    /\ call.n = 1
    /\ call.text = "My boss gave me an impossible deadline and I'm furious!"
    /\ call.emotion = "anger"

\* C18: on a freshly initialised engine, for "My boss gave me an impossible
\* deadline and I'm furious!" with emotion "anger", the resolved tag is anger,
\* main_context is work with boss and deadline among the matched keywords,
\* the intensity is medium_intensity or high_intensity, the context summary
\* is a phrase about work that the reply contains, and the reply ends with a
\* question mark.
C18_BossExample ==
    BossExampleAnswered =>
        /\ call.raised = ""
        /\ call.emotion_tag = "anger"
        /\ call.context_info.main_context = "work"
        /\ {"boss", "deadline"} \subseteq SeqToSet(call.context_info.key_elements)
        /\ call.intensity \in {"medium_intensity", "high_intensity"}
        /\ Contains(call.context_summary, "work")
        /\ Contains(call.value, call.context_summary)
        /\ Char(call.value, Len(call.value)) = "?"

\* The example answered with a reply about the pressure at work.
C18_BossExampleAnswered ==
    /\ BossExampleAnswered
    /\ call.emotion_tag = "anger"
    /\ call.context_info.main_context = "work"
    /\ call.intensity = "high_intensity"
    /\ call.context_summary = "the intense pressure and demands you're facing at work"
    /\ Char(call.value, Len(call.value)) = "?"

\* A read-only method has returned what it returned for the same text in
\* every earlier call.
SameTextSameResult ==
    (call.phase = "returned" /\ call.op \in PureMethods) =>
        \A i \in 1..Len(call.seen) :
            (call.seen[i].op = call.op /\ call.seen[i].text = call.text) =>
                /\ call.op = "identify_context"
                      => call.seen[i].context_info = call.context_info
                /\ call.op = "calculate_emotional_intensity"
                      => call.seen[i].value = call.value

\* A read-only method returns with the engine's tables as it found them.
PureCallKeepsTables ==
    (call.phase = "called" /\ call.op \in PureMethods /\ call'.phase = "returned")
        => follow_up_phrases' = follow_up_phrases

Summarised == call.phase = "returned" /\ call.op = "generate_context_summary"

\* What identify_context answers for the text of the call.
SummaryContext == identify_context(call.text, hash_seed)

\* The first trigger word, in the order of the trigger list, that the text holds.
FirstTriggerInListOrder(text_lower) ==
    emotion_triggers[Min({i \in 1..Len(emotion_triggers) :
                             Contains(text_lower, emotion_triggers[i])})]

\* The temporal frame around a phrase: the past frame before the future one.
Framed(phrase, temporal_indicators) ==
    IF temporal_indicators.past THEN "what you went through with " \o phrase
    ELSE IF temporal_indicators.future THEN "what you're anticipating with " \o phrase
    ELSE phrase

\* The trigger prefix before a summary, when the text holds a trigger word.
WithTrigger(summary, text_lower) ==
    IF AnyIn(emotion_triggers, text_lower)
    THEN "how " \o FirstTriggerInListOrder(text_lower) \o " you're feeling about " \o summary
    ELSE summary

\* C21: when sub_context is set, generate_context_summary returns the fixed
\* phrase of the sub-topic, in the past frame when the past flag is set,
\* otherwise in the future frame when the future flag is set, otherwise bare,
\* and then prefixed with "how T you're feeling about" for the first trigger
\* word T, in list order, that the text holds.
C21_FixedPhraseFramed ==
    Summarised =>
        \A context_info \in {SummaryContext} :
            context_info.sub_context # None =>
                call.value = WithTrigger(
                    Framed(Lookup(specific_summaries, context_info.sub_context),
                           context_info.temporal_indicators),
                    str_lower(call.text))

\* C21 with the phrase put into the past tense inside the past frame: each
\* "you're" of the phrase reads "you were" there.
C21_PhraseInPastTenseWhenPast ==
    Summarised =>
        \A context_info \in {SummaryContext} :
            context_info.sub_context # None =>
                call.value = WithTrigger(
                    Framed(IF context_info.temporal_indicators.past
                           THEN str_replace(Lookup(specific_summaries, context_info.sub_context),
                                            "you're", "you were")
                           ELSE Lookup(specific_summaries, context_info.sub_context),
                           context_info.temporal_indicators),
                    str_lower(call.text))

\* A text with both flags set and a phrase that holds "you're": the past
\* frame, around the phrase in the past tense.
C21_PastFrameWins ==
    /\ Summarised
    /\ call.text = "the deadline was moved to tomorrow"
    /\ SummaryContext.sub_context = "work_stress"
    /\ SummaryContext.temporal_indicators.past
    /\ SummaryContext.temporal_indicators.future
    /\ call.value = "what you went through with the intense pressure and demands you were facing at work"

\* The sentences of the text that have more than three words.
QualifyingSentences(text) == meaningful_sentences(re_split_sentences(str_strip(text)))

\* The score of a sentence: 2 for each matched keyword, 3 for each trigger
\* word, 1 for each intensity word that the sentence holds.
SentenceScore(sentence, context_info) ==
    2 * Cardinality({i \in 1..Len(context_info.key_elements) :
                        Contains(str_lower(sentence), context_info.key_elements[i])})
    + 3 * Cardinality({i \in 1..Len(context_info.emotional_triggers) :
                          Contains(str_lower(sentence), context_info.emotional_triggers[i])})
    + Cardinality({i \in 1..Len(all_intensity_words) :
                      Contains(str_lower(sentence), all_intensity_words[i])})

\* The first of the sentences of highest score.
BestSentence(sentences, context_info) ==
    sentences[CHOOSE i \in 1..Len(sentences) :
        /\ \A j \in 1..Len(sentences) :
              SentenceScore(sentences[j], context_info) <= SentenceScore(sentences[i], context_info)
        /\ \A j \in 1..(i - 1) :
              SentenceScore(sentences[j], context_info) < SentenceScore(sentences[i], context_info)]

\* The summary built from one sentence.
SummaryOfSentence(sentence, context_info) ==
    generate_general_context_summary(context_info.main_context, <<sentence>>,
                                     context_info.key_elements)

\* The fixed phrase of a topic, "what you're going through" without one.
TopicPhrase(main_context) ==
    DictGet(context_descriptions, main_context, "what you're going through")

\* The matched keywords of more than three characters.
LongKeywords(context_info) ==
    {element \in SeqToSet(context_info.key_elements) : Len(element) > 3}

\* The summaries without a sentence: the topic phrase when no matched keyword
\* has more than three characters, otherwise "the challenges with" one such
\* keyword, or two of them when there are two or more.
SummariesWithoutSentence(context_info) ==
    IF LongKeywords(context_info) = {} THEN {TopicPhrase(context_info.main_context)}
    ELSE IF Cardinality(LongKeywords(context_info)) = 1
    THEN {"the challenges with " \o element : element \in LongKeywords(context_info)}
    ELSE {"the challenges with " \o pair[1] \o " and " \o pair[2] :
            pair \in {p \in LongKeywords(context_info) \X LongKeywords(context_info) :
                         p[1] # p[2]}}

\* C22: without a sub_context and with at least one sentence of more than
\* three words, the summary is built from the first sentence of highest score,
\* whatever that score, never from the topic's fixed phrase.
C22_SummaryFromBestSentence ==
    Summarised =>
        \A context_info \in {SummaryContext} :
        \A sentences \in {QualifyingSentences(call.text)} :
            (context_info.sub_context = None /\ sentences # <<>>) =>
                call.value = SummaryOfSentence(BestSentence(sentences, context_info),
                                               context_info)

\* C22 for sentences that score: the summary is built from the first sentence
\* of highest score when that score is 1 or more; when every sentence of more
\* than three words scores 0 the summary is the one of a text without such a
\* sentence.
C22_SummaryFromBestScoringSentence ==
    Summarised =>
        \A context_info \in {SummaryContext} :
        \A sentences \in {QualifyingSentences(call.text)} :
            (context_info.sub_context = None /\ sentences # <<>>) =>
                IF SentenceScore(BestSentence(sentences, context_info), context_info) > 0
                THEN call.value = SummaryOfSentence(BestSentence(sentences, context_info),
                                                    context_info)
                ELSE call.value \in SummariesWithoutSentence(context_info)

\* Two sentences that score, the second more than the first: the summary is
\* built from the second.
C22_LaterSentenceScoresMore ==
    /\ Summarised
    /\ call.text = "My friend is kind here. My family is so very kind"
    /\ SummaryContext.sub_context = None
    /\ Len(QualifyingSentences(call.text)) = 2
    /\ SentenceScore(QualifyingSentences(call.text)[1], SummaryContext) = 2
    /\ SentenceScore(QualifyingSentences(call.text)[2], SummaryContext) = 4
    /\ call.value = "what happened with your family is so very kind"

\* C23: without a sub_context and without a sentence of more than three
\* words, the summary is exactly the fixed phrase of main_context ("what
\* you're going through" for general), whichever keywords were matched.
C23_TopicPhraseWithoutSentence ==
    Summarised =>
        \A context_info \in {SummaryContext} :
            (context_info.sub_context = None /\ QualifyingSentences(call.text) = <<>>) =>
                call.value = TopicPhrase(context_info.main_context)

\* C23 with the matched keywords: the fixed phrase only when no matched
\* keyword has more than three characters, otherwise "the challenges with"
\* one or two of those keywords.
C23_TopicPhraseOrChallenges ==
    Summarised =>
        \A context_info \in {SummaryContext} :
            (context_info.sub_context = None /\ QualifyingSentences(call.text) = <<>>) =>
                call.value \in SummariesWithoutSentence(context_info)

\* A short text with one matched keyword of three characters: the fixed
\* phrase of work.
C23_ShortKeywordKeepsTopicPhrase ==
    /\ Summarised
    /\ call.text = "my job"
    /\ SummaryContext.main_context = "work"
    /\ SummaryContext.sub_context = None
    /\ SummaryContext.key_elements = <<"job">>
    /\ QualifyingSentences(call.text) = <<>>
    /\ call.value = "your work situation"

\* ------------------------------------------------------------------------
\* The order of the conversions
\* ------------------------------------------------------------------------

\* A text with its first letter made a capital when the original starts with
\* one.
CapitalisedAs(result, text) ==
    IF result # "" /\ Char(result, 1) \in LowerSet /\ Char(text, 1) \in UpperSet
    THEN UpperChar(Char(result, 1)) \o SubSeq(result, 2, Len(result))
    ELSE result

\* C24: every contraction or verb phrase that starts with I is rewritten as a
\* whole, before the bare pronoun rule can touch it: each occurrence of a
\* listed phrase, in any letter case, yields the replacement listed for it
\* (capitalised at the start of a text that starts with a capital), never
\* "you" followed by the untouched rest of the phrase.
C24_PhraseRewrittenAsAWhole ==
    Converted =>
        \A i \in 1..NumPhrases : \A lead \in PhraseLeads : \A tail \in PhraseTails :
            call.text \in {lead \o form \o tail : form \in PhraseForms(conversions[i][1])}
                => call.value = CapitalisedAs(lead \o conversions[i][2] \o tail, call.text)

\* ------------------------------------------------------------------------
\* Replies at high intensity
\* ------------------------------------------------------------------------

C25_AnalyzeAnswersWithFourValues ==
    response.route = "/analyze" =>
        /\ response.text # "" =>
              /\ response.status = 200
              /\ {"emotion", "empathetic_response", "intensity", "context"} \subseteq response.keys
        /\ response.status # 200 =>
              /\ response.text = ""
              /\ response.status = 400
              /\ ~response.engine_called

\* C27: a request to /analyze or /transcribe that ends in an error response
\* (status 400 or 500) leaves every table of the shared engine as it was
\* before the request.
C27_ErrorResponseLeavesEngineAlone ==
    [][response'.status \in {400, 500} => follow_up_phrases' = follow_up_phrases]_vars

\* C28: whenever the recording GUI shows 'not recording' and no
\* process_audio thread is running, the recorder's flag is clear as well, so
\* that the next click on the record button starts a recording.
C28_IdleGuiHasIdleRecorder ==
    (~gui.is_recording /\ \A p \in DOMAIN gui.processors : gui.processors[p] = "done")
        => ~recorder.is_recording

\* The capture threads that have not ended.
AliveCaptureThreads == {t \in DOMAIN recorder.threads : recorder.threads[t] # "done"}

\* A process_audio thread leaves stop_recording in this step.
StopRecordingReturns ==
    \E p \in DOMAIN gui.processors :
        /\ gui.processors[p] \in {"stop_recording", "join"}
        /\ gui'.processors[p] \notin {"stop_recording", "join"}

\* C29: under every interleaving of start_recording and stop_recording, the
\* timed-out join included, at most one capture thread is alive at any time,
\* and when stop_recording returns no recording is left on the audio queue
\* for a later session.
C29_OneCaptureThreadAndNoLeftover ==
    /\ [](Cardinality(AliveCaptureThreads) <= 1)
    /\ [][StopRecordingReturns => recorder'.audio_queue = <<>>]_vars

\* A click on Process with non-empty input is handled in this step.
ClickedWithInput == Len(simple'.threads) > Len(simple.threads)

\* C30: every click on Process with non-empty input disables the button,
\* and a disabled button is eventually enabled again, given that the worker
\* threads and the periodic queue check keep running.
C30_DisabledButtonIsEnabledAgain ==
    /\ [][ClickedWithInput => simple'.button = "disabled"]_vars
    /\ (simple.button = "disabled") ~> (simple.button = "normal")

\* A click has been served to the end: its worker has put its messages and
\* the queue check has enabled the button again.
C30_ButtonEnabledAfterWorker ==
    /\ simple.threads # <<>>
    /\ \A w \in DOMAIN simple.threads : simple.threads[w].pc = "done"
    /\ simple.message_queue = <<>>
    /\ simple.button = "normal"
====
